---- MODULE Spec2Model ----
(***************************************************************************)
(* Facility-location engine of cd_viabilidade.                             *)
(*                                                                         *)
(* One behaviour is one call of solve_facility_location: Init fixes the    *)
(* arguments of the call, the actions follow the body of the function      *)
(* (src/cd_viabilidade/facility_location.py, lines 61-166).  Lines 36-55   *)
(* of that file, the forced/candidate conflict check, sit between the      *)
(* opening and the closing quotes of the docstring: they are text, not     *)
(* statements, and no action models them.  (The docstring is also indented *)
(* one column deeper than the body, the mark of a patch pasted as text;    *)
(* the body is modelled as the statements it holds.)                       *)
(*                                                                         *)
(* Costs are integers; None is the empty tuple and a given value v is the  *)
(* one-element tuple <<v>>.                                                *)
(***************************************************************************)
EXTENDS Integers, Sequences, FiniteSets, TLC

\* ------------------------------------------------------------------ bounds
MaxNew == 1
MaxFloor == 2
\* largest limite_novos_cds of a scenario
MaxLimit == 2
\* longest mapping of scenarios handed to run_scenarios_batch
MaxBatch == 2
\* largest max_retries of a GeocodingClient
MaxRetries == 3
\* largest net present value of a scenario
MaxNpv == 2
\* most rows of a dataset handed to a typed loader
MaxRows == 2
\* largest default_facility_limit of an AppConfig
MaxDefaultLimit == 3

\* ---------------------------------------------------------- input universe
\* fixed_costs["facility_id"], in table order
FacilityTable == <<"A", "B", "C">>
\* an id that no row of the fixed-cost table carries
UnknownId == "Z"
\* client ids, in the order sorted() gives them
ClientOrder == <<"c1", "c2">>
FixedValues == {0, 2}
CostValues == {1, 3}
\* pd.NA in the cost column
NA == -1

None == <<>>
Some(v) == <<v>>
IsNone(o) == o = <<>>
Val(o) == o[1]

Range(s) == {s[i] : i \in 1..Len(s)}
TableIds == Range(FacilityTable)
ClientIds == Range(ClientOrder)
AllPairs == TableIds \X ClientIds

VARIABLES
    cost_matrix,              \* rows of the cost matrix: (facility, client) -> cost or NA
    no_coords,                \* ids whose lat/lon was absent when the matrix was built
    fixed_costs,              \* fixed-cost table: facility -> fixed_cost
    max_new_facilities,       \* None or Some(int)
    min_total_open_facilities,\* None or Some(int)
    capacity_by_facility,     \* None or Some(facility -> capacity)
    forced_open_facilities,   \* set of ids (None and [] behave alike)
    candidate_facilities,     \* None or Some(set of ids)
    demanda,                  \* "demanda" column of the cost matrix: None or Some(client -> demand)
    client_ids_are_str,       \* whether the client_id column holds str values
    demand_by_client,         \* None or Some(client -> demand), possibly partial
    candidates,               \* facilities.csv, the candidates DataFrame (None outside the pipeline)
    demand_points,            \* clients.csv, the demand_points DataFrame
    scenario_name,            \* name of the scenario being executed
    scenario,                 \* its ScenarioConfig
    groups,                   \* None or Some(<<existing, candidates>>) of _resolve_facility_groups
    long_df,                  \* None or Some(rows returned by build_cost_matrix)
    batch,                    \* loop state of run_scenarios_batch
    estimate,                 \* None or Some(table returned by estimate_fixed_costs)
    client,                   \* the GeocodingClient: max_retries, backoff_seconds, cache_suffix, _cache
    call,                     \* the last geocode_city_uf: cidade, uf, attempt (None before the first)
    io_log,                   \* geocoder.geocode and sleep_fn calls made since the call began
    config,                   \* the AppConfig of the pipeline
    runs,                     \* the dicts execute_scenario returned so far, with the models solved
    scenario_costs,           \* argument of generate_executive_report
    scenario_indicators,      \* argument of generate_executive_report
    dataset,                  \* the CSV a typed loader reads
    output_dir,               \* the files of the output directory, by name
    pc,                       \* "start", "built", "returned", "raised"; other labels in the pipeline
    model,                    \* the LpProblem once built, None before
    backend_calls,            \* number of model.solve() calls
    error,                    \* None or Some(the exception raised)
    result                    \* None or Some(the SolutionResult returned)

\* the state of the pipeline around the solver
env == <<candidates, demand_points, scenario_name, scenario, groups, long_df, batch, estimate,
         client, call, io_log, config, runs, scenario_costs, scenario_indicators,
         dataset, output_dir>>

\* the arguments of solve_facility_location
args == <<cost_matrix, no_coords, fixed_costs, max_new_facilities,
          min_total_open_facilities, capacity_by_facility,
          forced_open_facilities, candidate_facilities,
          demanda, client_ids_are_str, demand_by_client>>

\* what a call of solve_facility_location leaves alone
inputs == <<args, env>>
vars == <<cost_matrix, no_coords, fixed_costs, max_new_facilities,
          min_total_open_facilities, capacity_by_facility,
          forced_open_facilities, candidate_facilities,
          demanda, client_ids_are_str, demand_by_client,
          candidates, demand_points, scenario_name, scenario, groups, long_df,
          batch, estimate, client, call, io_log, config, runs, scenario_costs,
          scenario_indicators, dataset, output_dir,
          pc, model, backend_calls, error, result>>

\* ------------------------------------------------------------- cost matrix
\* cost_matrix.py: an edge with an absent coordinate gets pd.NA, every pair
\* of sites x demand points gets a row.
build_cost_matrix(freight, missing) ==
    [p \in AllPairs |->
        IF p[1] \in missing \/ p[2] \in missing THEN NA ELSE freight[p]]

\* ------------------------------------------------- solve_facility_location
\* facilities = fixed_costs["facility_id"].astype(str).tolist()
facilities == SelectSeq(FacilityTable, LAMBDA f : f \in DOMAIN fixed_costs)

\* clients = sorted(cost_matrix["client_id"].astype(str).unique().tolist())
clients == SelectSeq(ClientOrder, LAMBDA c : \E p \in DOMAIN cost_matrix : p[2] = c)

\* the rows taken as they come, undefined costs included
variable_cost_KeepNA ==
    [p \in DOMAIN cost_matrix |-> cost_matrix[p]]

\* variable_cost: the rows that survive dropna(subset=[cost_column])
variable_cost ==
    [p \in {q \in DOMAIN cost_matrix : cost_matrix[q] # NA} |-> cost_matrix[p]]

\* forced_open = {str(f) for f in (forced_open_facilities or [])}
forced_open == forced_open_facilities

unknown_forced == forced_open \ Range(facilities)

\* candidate_set, lines 79-82
candidate_set ==
    IF IsNone(candidate_facilities)
    THEN Range(facilities) \ forced_open
    ELSE Val(candidate_facilities)

\* the candidate ids never compared with the fixed-cost table
unknown_candidates_Unchecked == {}

unknown_candidates ==
    IF IsNone(candidate_facilities) THEN {} ELSE candidate_set \ Range(facilities)

\* lines 87-96: the dict is keyed by the client_id values as the column holds
\* them, while clients holds str(client_id): inferred_demand.get(client, 1.0)
\* finds a key only when the column's values are themselves str.
inferred_demand(c) ==
    IF demanda # None /\ client_ids_are_str /\ c \in DOMAIN Val(demanda)
    THEN Val(demanda)[c]
    ELSE 1

\* lines 98-100: demand_by_client, keyed by str(k), overrides
client_demand ==
    [c \in Range(clients) |->
        IF demand_by_client # None /\ c \in DOMAIN Val(demand_by_client)
        THEN Val(demand_by_client)[c]
        ELSE inferred_demand(c)]

\* the pairs in the order the nested loops of lines 107-110 visit them
PairLoop ==
    LET sites == facilities
        cls   == clients
        nf    == Len(sites)
    IN  [i \in 1..(Len(cls) * nf) |->
            <<sites[((i - 1) % nf) + 1], cls[((i - 1) \div nf) + 1]>>]

MissingPairs == SelectSeq(PairLoop, LAMBDA p : p \notin DOMAIN variable_cost)

\* ------------------------------------------------------------ the MILP model
RECURSIVE SumSeq(_, _)
\* sum(...) / pulp.lpSum(...) of the terms term[i] for i in 1..n
SumSeq(term, n) ==
    LET t == term
    IN  IF n = 0 THEN 0 ELSE t[n] + SumSeq(t, n - 1)

\* pulp.lpSum(w[e] for e in S), S a set
SumSet(w, S) ==
    LET members == S
        order   == SelectSeq(facilities, LAMBDA f : f \in members)
    IN  SumSeq([i \in 1..Len(order) |-> w[order[i]]], Len(order))

\* y = LpVariable.dicts("y", facilities, 0, 1, LpBinary)
YValues == [Range(facilities) -> {0, 1}]
\* x = LpVariable.dicts("x", (clients, facilities), 0, 1, LpBinary)
XValues == [Range(clients) -> [Range(facilities) -> {0, 1}]]

\* the objective without its fixed-cost term
Objective_VariableOnly(y, x) ==
    LET pairs == PairLoop
        cost  == variable_cost
    IN  SumSeq([i \in 1..Len(pairs) |-> cost[pairs[i]] * x[pairs[i][2]][pairs[i][1]]],
               Len(pairs))

\* lines 112-115: the objective
Objective(y, x) ==
    LET pairs == PairLoop
        cost  == variable_cost
        sites == facilities
    IN  SumSeq([i \in 1..Len(pairs) |-> cost[pairs[i]] * x[pairs[i][2]][pairs[i][1]]],
               Len(pairs))
        + SumSeq([i \in 1..Len(sites) |-> fixed_costs[sites[i]] * y[sites[i]]],
                 Len(sites))

\* the assignment row written with <= 1
AssignOnce_AtMost(x) ==
    \A c \in Range(clients) : SumSet(x[c], Range(facilities)) <= 1

\* lines 117-118: lpSum(x[client][facility] for facility in facilities) == 1
AssignOnce(x) ==
    \A c \in Range(clients) : SumSet(x[c], Range(facilities)) = 1

\* lines 120-122: x[client][facility] <= y[facility]
ServeOnlyOpen(y, x) ==
    \A c \in Range(clients) : \A f \in Range(facilities) : x[c][f] <= y[f]

\* the forced-open rows left out of the model
ForcedAreOpen_Skipped(m, y) == TRUE

\* lines 124-125: y[facility] == 1 for facility in forced_open
ForcedAreOpen(m, y) ==
    \A f \in m.forced_open : y[f] = 1

\* lines 127-133: the capacity rows, one per facility
WithinCapacity(m, x) ==
    IsNone(m.capacity)
    \/ LET cls    == clients
           demand == client_demand
       IN  \A f \in Range(facilities) :
              SumSeq([i \in 1..Len(cls) |-> demand[cls[i]] * x[cls[i]][f]],
                     Len(cls)) <= Val(m.capacity)[f]

\* the cap guarded by truthiness: a cap of 0 adds no row
NewOpeningsCap_Truthy(m, y) ==
    IsNone(m.max_new) \/ Val(m.max_new) = 0 \/ SumSet(y, m.cap_set) <= Val(m.max_new)

\* lines 135-136: lpSum(y[facility] for facility in candidate_set) <= max_new_facilities
NewOpeningsCap(m, y) ==
    IsNone(m.max_new) \/ SumSet(y, m.cap_set) <= Val(m.max_new)

\* the floor summed with a strict bound one too low
OpenFloor_OffByOne(m, y) ==
    IsNone(m.min_total) \/ SumSet(y, Range(facilities)) > Val(m.min_total) - 2

\* lines 138-139: lpSum(y[facility] for facility in facilities) >= int(min_total_open_facilities)
OpenFloor(m, y) ==
    IsNone(m.min_total) \/ SumSet(y, Range(facilities)) >= Val(m.min_total)

Constraints(m, y, x) ==
    /\ ServeOnlyOpen(y, x)
    /\ AssignOnce(x)
    /\ ForcedAreOpen(m, y)
    /\ WithinCapacity(m, x)
    /\ NewOpeningsCap(m, y)
    /\ OpenFloor(m, y)

\* the LpProblem the function has assembled when it reaches model.solve()
BuiltModel ==
    [forced_open |-> forced_open,
     capacity    |-> capacity_by_facility,
     max_new     |-> max_new_facilities,
     cap_set     |-> candidate_set,
     min_total   |-> min_total_open_facilities]

\* The backend (CBC behind pulp): an exact solver.  Every assignment of the
\* binaries that meets the rows of the model is feasible; the status is
\* Optimal when there is one, and the assignment handed back is any
\* feasible one of least objective.
FeasibleSet(m) ==
    {s \in YValues \X {x \in XValues : AssignOnce(x)} : Constraints(m, s[1], s[2])}

LeastObjective(S) ==
    LET vals == {Objective(s[1], s[2]) : s \in S}
    IN  CHOOSE v \in vals : \A w \in vals : v <= w

OptimalSet(m) ==
    LET feas == FeasibleSet(m)
    IN  IF feas = {} THEN {}
        ELSE LET best == LeastObjective(feas)
             IN  {s \in feas : Objective(s[1], s[2]) = best}

\* a status that is never told apart from Optimal
LpStatus_NeverChecked(m) == "Optimal"

LpStatus(m) == IF FeasibleSet(m) = {} THEN "Infeasible" ELSE "Optimal"

\* ------------------------------------------------------------ extraction
\* line 145
OpenFacilities(y) == SelectSeq(facilities, LAMBDA f : y[f] = 1)

\* lines 146-151: a dict comprehension, the last facility with x > 0.5 wins
Allocation(x) ==
    [c \in {d \in Range(clients) : \E f \in Range(facilities) : x[d][f] = 1} |->
        LET hits == SelectSeq(facilities, LAMBDA f : x[c][f] = 1)
        IN  hits[Len(hits)]]

\* lines 153-166
SolutionResult(y, x) ==
    LET open  == OpenFacilities(y)
        alloc == Allocation(x)
        keys  == SelectSeq(clients, LAMBDA c : c \in DOMAIN alloc)
    IN  [open_facilities |-> open,
         total_cost      |-> Objective(y, x),
         fixed_cost      |-> SumSeq([i \in 1..Len(open) |-> fixed_costs[open[i]]], Len(open)),
         variable_cost   |-> SumSeq([i \in 1..Len(keys) |->
                                        variable_cost[<<alloc[keys[i]], keys[i]>>]], Len(keys)),
         allocation      |-> alloc]

\* ------------------------------------------------------------------ inputs
\* cost matrices: built by build_cost_matrix (a point without coordinates
\* leaves NA on its edges) and possibly passed on with some rows removed
NoCoordsChoices == {{}, {"A"}, {"c2"}, {"B", "c1"}}
DroppedChoices ==
    {{}, {<<"A", "c1">>}, {<<"C", "c2">>}, {<<"B", "c1">>, <<"A", "c2">>},
     {<<"A", "c2">>, <<"B", "c2">>, <<"C", "c2">>}}

\* each client has one near site (cost 1), the others are far (cost 3)
NearMatrices ==
    {[p \in AllPairs |-> IF near[p[2]] = p[1] THEN 1 ELSE 3] : near \in [ClientIds -> TableIds]}

ForcedChoices == {{}, {"A"}, {"A", "B"}, {"B", UnknownId}}
CandidateChoices ==
    {None} \cup {Some(S) : S \in {{"B"}, {"A", "B"}, {"A", "B", "C"}, {"B", "C"}, {"C", UnknownId}}}
MaxNewChoices == {None} \cup {Some(k) : k \in 0..MaxNew}
MinTotalChoices == {None} \cup {Some(k) : k \in 1..MaxFloor}
CapacityChoices == {None, Some([f \in TableIds |-> 1])}

\* the tables as build_cost_matrix leaves them, some rows removed afterwards
TableOf(freight, missing, dropped) ==
    [p \in AllPairs \ dropped |-> build_cost_matrix(freight, missing)[p]]

\* every cost table, the call with every optional argument left out but the cap
InitCosts ==
    /\ no_coords = {}
    /\ cost_matrix \in [AllPairs -> CostValues]
    /\ fixed_costs \in [TableIds -> FixedValues]
    /\ max_new_facilities \in MaxNewChoices
    /\ min_total_open_facilities = None
    /\ capacity_by_facility = None
    /\ forced_open_facilities = {}
    /\ candidate_facilities = None

\* every call, the near/far cost tables with one fixed cost for all sites
InitCalls ==
    /\ no_coords = {}
    /\ cost_matrix \in NearMatrices
    /\ fixed_costs \in {[f \in TableIds |-> v] : v \in FixedValues}
    /\ max_new_facilities \in MaxNewChoices
    /\ min_total_open_facilities \in MinTotalChoices
    /\ capacity_by_facility \in CapacityChoices
    /\ forced_open_facilities \in ForcedChoices
    /\ candidate_facilities \in CandidateChoices

\* cost tables with undefined or absent edges
InitGaps ==
    /\ \E missing \in NoCoordsChoices, dropped \in DroppedChoices :
          /\ no_coords = missing
          /\ cost_matrix = TableOf([p \in AllPairs |-> 1], missing, dropped)
    /\ fixed_costs = [f \in TableIds |-> 0]
    /\ max_new_facilities \in MaxNewChoices
    /\ min_total_open_facilities = None
    /\ capacity_by_facility = None
    /\ forced_open_facilities \in ForcedChoices
    /\ candidate_facilities \in CandidateChoices

\* a fixed-cost table of one site, serving both clients at cost 1
InitSingle ==
    /\ no_coords = {}
    /\ cost_matrix = [p \in {"A"} \X ClientIds |-> 1]
    /\ fixed_costs \in [{"A"} -> FixedValues]
    /\ max_new_facilities \in MaxNewChoices
    /\ min_total_open_facilities \in MinTotalChoices
    /\ capacity_by_facility \in CapacityChoices
    /\ forced_open_facilities \in {{}, {"A"}}
    /\ candidate_facilities = None

\* the call of test_solve_facility_location_returns_deterministic_solution,
\* F1, F2 written A, B and C1, C2 written c1, c2
ExampleCosts ==
    (<<"A", "c1">> :> 1) @@ (<<"B", "c1">> :> 5) @@ (<<"A", "c2">> :> 5) @@ (<<"B", "c2">> :> 1)

InitExample ==
    /\ no_coords = {}
    /\ cost_matrix = ExampleCosts
    /\ fixed_costs = ("A" :> 1) @@ ("B" :> 10)
    /\ max_new_facilities = Some(1)
    /\ min_total_open_facilities = None
    /\ capacity_by_facility = None
    /\ forced_open_facilities = {}
    /\ candidate_facilities = None

\* a cost matrix without "demanda" column, no demand_by_client
NoDemandData ==
    /\ demanda = None
    /\ client_ids_are_str = TRUE
    /\ demand_by_client = None

\* no run of the pipeline before this one
NoSession ==
    /\ config = None
    /\ runs = <<>>

\* no executive report asked for
NoReport ==
    /\ scenario_costs = None
    /\ scenario_indicators = None

\* no typed loader running, an empty output directory
NoLoader ==
    /\ dataset = None
    /\ output_dir = <<>>

\* solve_facility_location called on its own, no pipeline around it
NoPipeline ==
    /\ candidates = None
    /\ demand_points = None
    /\ scenario_name = None
    /\ scenario = None
    /\ groups = None
    /\ long_df = None
    /\ batch = None
    /\ estimate = None
    /\ client = None
    /\ call = None
    /\ io_log = <<>>
    /\ NoSession
    /\ NoReport
    /\ NoLoader

StartOfCall ==
    /\ NoPipeline
    /\ pc = "start"
    /\ model = None
    /\ backend_calls = 0
    /\ error = None
    /\ result = None

Init ==
    /\ (InitCosts \/ InitCalls \/ InitGaps \/ InitSingle \/ InitExample)
    /\ NoDemandData
    /\ StartOfCall

\* ----------------------------------------------------------------- actions
Raise(type, what, detail) ==
    /\ pc' = "raised"
    /\ error' = Some([type |-> type, what |-> what, detail |-> detail])
    /\ UNCHANGED <<inputs, model, backend_calls, result>>

\* lines 74-77
RaiseUnknownForced ==
    /\ pc = "start"
    /\ unknown_forced # {}
    /\ Raise("ValueError", "unknown_forced", unknown_forced)

\* lines 79-85
RaiseUnknownCandidates ==
    /\ pc = "start"
    /\ unknown_forced = {}
    /\ unknown_candidates # {}
    /\ Raise("ValueError", "unknown_candidates", unknown_candidates)

\* lines 107-110: the first pair of the loop without a cost
RaiseMissingCost ==
    /\ pc = "start"
    /\ unknown_forced = {}
    /\ unknown_candidates = {}
    /\ MissingPairs # <<>>
    /\ Raise("ValueError", "missing_cost", MissingPairs[1])

\* lines 61-139 with no raise: the model is assembled
BuildModel ==
    /\ pc = "start"
    /\ unknown_forced = {}
    /\ unknown_candidates = {}
    /\ MissingPairs = <<>>
    /\ pc' = "built"
    /\ model' = Some(BuiltModel)
    /\ UNCHANGED <<inputs, backend_calls, error, result>>

\* lines 141-143: status other than Optimal
SolveNotOptimal ==
    /\ pc = "built"
    /\ LpStatus(Val(model)) # "Optimal"
    /\ backend_calls' = backend_calls + 1
    /\ pc' = "raised"
    /\ error' = Some([type |-> "RuntimeError", what |-> "status",
                      detail |-> LpStatus(Val(model))])
    /\ UNCHANGED <<inputs, model, result>>

\* lines 141-166: status Optimal, the result is read off the variables
SolveOptimal ==
    /\ pc = "built"
    /\ \E s \in OptimalSet(Val(model)) :
          result' = Some(SolutionResult(s[1], s[2]))
    /\ backend_calls' = backend_calls + 1
    /\ pc' = "returned"
    /\ UNCHANGED <<inputs, model, error>>

Next ==
    \/ RaiseUnknownForced
    \/ RaiseUnknownCandidates
    \/ RaiseMissingCost
    \/ BuildModel
    \/ SolveNotOptimal
    \/ SolveOptimal

Spec == Init /\ [][Next]_vars

TypeOK ==
    /\ pc \in {"start", "built", "raised", "returned"}
    /\ backend_calls \in 0..1
    /\ (pc = "returned") = (result # None)
    /\ (pc = "raised") = (error # None)

\* ------------------------------------------------------------- properties
Returned == pc = "returned"
Raised == pc = "raised"
Res == Val(result)
Err == Val(error)
OpenSet == Range(Res.open_facilities)

RECURSIVE Total(_, _)
\* the sum of w[e] over the elements e of the finite set S
Total(w, S) ==
    IF S = {} THEN 0
    ELSE LET e == CHOOSE d \in S : TRUE IN w[e] + Total(w, S \ {e})

\* the facility ids of the fixed-cost table
FixedIds == DOMAIN fixed_costs

\* the client ids the cost matrix refers to
MatrixClients == {p[2] : p \in DOMAIN cost_matrix}

\* candidate_facilities as the caller means it: the argument, or by default
\* every facility of the fixed-cost table that is not forced open
CandidateArg ==
    IF candidate_facilities = None THEN FixedIds \ forced_open_facilities
    ELSE Val(candidate_facilities)

\* C1: in every returned result the allocation's keys are exactly the client
\* ids of the cost matrix, each mapped to one facility, and that facility is
\* one of open_facilities.
C1_AllocationCoversClients ==
    Returned =>
        /\ DOMAIN Res.allocation = MatrixClients
        /\ \A c \in DOMAIN Res.allocation : Res.allocation[c] \in OpenSet

C1_Witness ==
    /\ Returned
    /\ MatrixClients = ClientIds
    /\ Res.allocation["c1"] # Res.allocation["c2"]

\* C3: every forced-open id is in open_facilities of a returned result.
C3_ForcedAreInOpenSet ==
    Returned => forced_open_facilities \subseteq OpenSet

\* a forced-open site that serves no client is open all the same
C3_Witness ==
    /\ Returned
    /\ \E f \in forced_open_facilities :
          /\ f \in OpenSet
          /\ \A c \in DOMAIN Res.allocation : Res.allocation[c] # f

\* C4: with max_new_facilities set, a returned result opens at most that many
\* of the candidate facilities.
C4_NewOpeningsWithinCap ==
    (Returned /\ max_new_facilities # None) =>
        Cardinality(OpenSet \cap CandidateArg) <= Val(max_new_facilities)

C4_Witness ==
    /\ Returned
    /\ candidate_facilities # None
    /\ max_new_facilities = Some(1)
    /\ Cardinality(OpenSet \cap CandidateArg) = 1
    /\ Cardinality(CandidateArg) > 1

\* C5: with min_total_open_facilities set, a returned result has at least
\* that many open facilities, forced-open and candidate ones counted alike.
C5_OpenCountReachesFloor ==
    (Returned /\ min_total_open_facilities # None) =>
        Cardinality(OpenSet) >= Val(min_total_open_facilities)

C5_Witness ==
    /\ Returned
    /\ min_total_open_facilities = Some(2)
    /\ Cardinality(OpenSet) = 2
    /\ OpenSet \cap forced_open_facilities # {}
    /\ OpenSet \ forced_open_facilities # {}

\* C6: in every returned result fixed_cost is the sum of the fixed costs of
\* open_facilities, variable_cost the sum of the edge costs of the allocation,
\* and the two add up to total_cost.
C6_CostsAddUp ==
    Returned =>
        /\ Res.fixed_cost = Total(fixed_costs, OpenSet)
        /\ Res.variable_cost =
              Total([c \in DOMAIN Res.allocation |-> cost_matrix[<<Res.allocation[c], c>>]],
                    DOMAIN Res.allocation)
        /\ Res.fixed_cost + Res.variable_cost = Res.total_cost

C6_Witness ==
    /\ Returned
    /\ Cardinality(OpenSet) = 2
    /\ Res.fixed_cost = 4
    /\ Res.variable_cost = 2
    /\ Res.total_cost = 6

\* The model of section 4.2 of the specification for the arguments of the
\* call: the cap of constraint 5 is summed over the candidate set with the
\* forced-open sites taken out.
StatedModel ==
    [forced_open |-> forced_open_facilities,
     capacity    |-> capacity_by_facility,
     max_new     |-> max_new_facilities,
     cap_set     |-> CandidateArg \ forced_open_facilities,
     min_total   |-> min_total_open_facilities]

\* variable cost of the chosen edges plus fixed cost of the open sites
StatedCost(y, x) ==
    Total([p \in FixedIds \X MatrixClients |-> cost_matrix[p] * x[p[2]][p[1]]],
          FixedIds \X MatrixClients)
    + Total([f \in FixedIds |-> fixed_costs[f] * y[f]], FixedIds)

\* C2: the total_cost of a returned result is the least cost of any
\* open/assign choice that meets the constraints of the model for the given
\* arguments: no such choice costs strictly less.
C2_TotalCostIsGlobalMinimum ==
    Returned =>
        \A s \in FeasibleSet(StatedModel) : Res.total_cost <= StatedCost(s[1], s[2])

\* forced and candidate ids that are both given and overlap
Overlap ==
    IF candidate_facilities = None THEN {}
    ELSE forced_open_facilities \cap Val(candidate_facilities)

OverlapExceedsCap ==
    /\ Overlap # {}
    /\ max_new_facilities # None
    /\ Cardinality(Overlap) > Val(max_new_facilities)

\* C7: when the forced-open and candidate ids overlap in more sites than
\* max_new_facilities allows, the call raises a configuration error before
\* any solve attempt and returns no result.
C7_ConflictIsConfigurationError ==
    OverlapExceedsCap =>
        /\ backend_calls = 0
        /\ ~Returned
        /\ Raised => Err.type = "ValueError"

\* C8: when the forced-open and candidate ids overlap without exceeding the
\* cap, the set summed by the max_new_facilities constraint of the built
\* model is disjoint from the forced-open set.
C8_CapSetExcludesForced ==
    (model # None /\ Overlap # {} /\ ~OverlapExceedsCap) =>
        Val(model).cap_set \cap forced_open_facilities = {}

\* ids given as forced-open or candidate that the fixed-cost table lacks
UnknownIds == (forced_open_facilities \cup CandidateArg) \ FixedIds

\* C9: an id among forced_open_facilities or candidate_facilities that is
\* absent from the fixed-cost table makes the call raise a configuration
\* error; the model is never built and the backend never invoked.
C9_UnknownIdIsConfigurationError ==
    UnknownIds # {} =>
        /\ model = None
        /\ backend_calls = 0
        /\ result = None
        /\ pc \in {"start", "raised"}
        /\ pc = "start" => ENABLED (RaiseUnknownForced \/ RaiseUnknownCandidates)
        /\ Raised =>
              /\ Err.type = "ValueError"
              /\ Err.what \in {"unknown_forced", "unknown_candidates"}
              /\ Err.detail # {}
              /\ Err.detail \subseteq UnknownIds

C9_Witness ==
    /\ Raised
    /\ forced_open_facilities \subseteq TableIds
    /\ Err.what = "unknown_candidates"
    /\ Err.detail = {UnknownId}

\* the pairs of (fixed-cost-table facilities) x (clients of the cost matrix)
\* that have no row or an undefined cost
Gaps ==
    {p \in FixedIds \X MatrixClients : p \notin DOMAIN cost_matrix \/ cost_matrix[p] = NA}

\* C10 as stated: whichever pair lacks a cost, the call raises the error
\* that names that pair, and the backend is never invoked.
C10_EveryGapIsNamed ==
    \A p \in Gaps :
        /\ backend_calls = 0
        /\ pc \in {"start", "raised"}
        /\ Raised => (Err.what = "missing_cost" /\ Err.detail = p)

\* position of an element in a sequence without repetitions
Pos(seq, e) == CHOOSE i \in 1..Len(seq) : seq[i] = e

\* p comes before q when the clients are taken in sorted order and, for one
\* client, the facilities in the order of the fixed-cost table
Before(p, q) ==
    \/ Pos(ClientOrder, p[2]) < Pos(ClientOrder, q[2])
    \/ (p[2] = q[2] /\ Pos(FacilityTable, p[1]) < Pos(FacilityTable, q[1]))

\* C10 (amended): when some pair lacks a cost the call raises an error, the
\* model is never solved and nothing is returned; unless an unknown forced or
\* candidate id is reported first, the error is the missing-cost error and
\* names the first pair without a cost (clients sorted, facilities in table
\* order), whether the row is absent or was left undefined by
\* build_cost_matrix.
C10_FirstGapIsNamed ==
    Gaps # {} =>
        /\ backend_calls = 0
        /\ model = None
        /\ result = None
        /\ pc \in {"start", "raised"}
        /\ pc = "start" =>
              ENABLED (RaiseUnknownForced \/ RaiseUnknownCandidates \/ RaiseMissingCost)
        /\ Raised =>
              /\ Err.type = "ValueError"
              /\ UnknownIds # {} => Err.what \in {"unknown_forced", "unknown_candidates"}
              /\ UnknownIds = {} =>
                    /\ Err.what = "missing_cost"
                    /\ Err.detail \in Gaps
                    /\ \A q \in Gaps \ {Err.detail} : Before(Err.detail, q)

\* an edge of a site without coordinates surfaces as the missing-cost error
C10_Witness ==
    /\ Raised
    /\ no_coords = {"A"}
    /\ DOMAIN cost_matrix = AllPairs
    /\ Err.what = "missing_cost"
    /\ Err.detail = <<"A", "c1">>

\* ------------------------------------------------------------ C11 .. C13
\* some open/assign choice meets every row of the model that was built
SomeChoiceFits ==
    \E y \in [FixedIds -> {0, 1}], x \in [MatrixClients -> [FixedIds -> {0, 1}]] :
        Constraints(Val(model), y, x)

\* no site may open: cap 0 on every site, none forced open
NothingMayOpen ==
    /\ max_new_facilities = Some(0)
    /\ forced_open_facilities = {}
    /\ candidate_facilities = None
    /\ MatrixClients # {}

\* the floor asks for more open sites than the table has
FloorAboveTable ==
    /\ min_total_open_facilities # None
    /\ Val(min_total_open_facilities) > Cardinality(FixedIds)

\* with one unit of demand per client, the capacities add up to less than
\* the demand
CapacityBelowDemand ==
    /\ capacity_by_facility # None
    /\ demanda = None
    /\ demand_by_client = None
    /\ Total([f \in FixedIds |-> Val(capacity_by_facility)[f]], FixedIds)
          < Cardinality(MatrixClients)

ExampleCall ==
    /\ fixed_costs = ("A" :> 1) @@ ("B" :> 10)
    /\ cost_matrix = ExampleCosts
    /\ max_new_facilities = Some(1)
    /\ min_total_open_facilities = None
    /\ capacity_by_facility = None
    /\ forced_open_facilities = {}
    /\ candidate_facilities = None
    /\ demand_by_client = None

\* C13: for the documented example the call returns open_facilities = [F1],
\* allocation = {C1: F1, C2: F1}, fixed_cost 1, variable_cost 6, total_cost 7.
C13_ExampleResult ==
    ExampleCall =>
        /\ ~Raised
        /\ pc = "start" => ENABLED BuildModel
        /\ pc = "built" => ENABLED SolveOptimal
        /\ Returned =>
              /\ Res.open_facilities = <<"A">>
              /\ Res.allocation = ("c1" :> "A") @@ ("c2" :> "A")
              /\ Res.fixed_cost = 1
              /\ Res.variable_cost = 6
              /\ Res.total_cost = 7

C13_Witness ==
    /\ ExampleCall
    /\ Returned
    /\ Res.total_cost = 7

\* ------------------------------------------------------------------- C12
\* calls with capacities, a "demanda" column and demand_by_client overrides
DemandColumnChoices ==
    {None, Some(("c1" :> 2) @@ ("c2" :> 1)), Some(("c1" :> 2) @@ ("c2" :> 2))}
DemandOverrideChoices ==
    {None, Some("c1" :> 3), Some(("c1" :> 1) @@ ("c2" :> 1))}

InitCapacity ==
    /\ no_coords = {}
    /\ cost_matrix \in NearMatrices \cup {TableOf([p \in AllPairs |-> 1], {}, {<<"A", "c1">>})}
    /\ fixed_costs = [f \in TableIds |-> 0]
    /\ max_new_facilities = None
    /\ min_total_open_facilities = None
    /\ capacity_by_facility \in {Some(cap) : cap \in [TableIds -> {1, 3}]}
    /\ forced_open_facilities \in {{}, {"B", UnknownId}}
    /\ candidate_facilities \in {None, Some({"C", UnknownId})}
    /\ demanda \in DemandColumnChoices
    /\ client_ids_are_str \in BOOLEAN
    /\ demand_by_client \in DemandOverrideChoices
    /\ StartOfCall

SpecCapacity == InitCapacity /\ [][Next]_vars

\* a client's demand as documented: the demand_by_client override if
\* present, else the demand column of the cost matrix, else 1.0
DocumentedDemand(c) ==
    IF demand_by_client # None /\ c \in DOMAIN Val(demand_by_client)
    THEN Val(demand_by_client)[c]
    ELSE IF demanda # None /\ c \in DOMAIN Val(demanda)
         THEN Val(demanda)[c]
         ELSE 1

\* total documented demand of the clients a result allocates to f
Load(f) ==
    LET served == {c \in DOMAIN Res.allocation : Res.allocation[c] = f}
    IN  Total([c \in served |-> DocumentedDemand(c)], served)

\* C12: with capacity_by_facility given, the total demand of the clients
\* allocated to a facility never exceeds that facility's capacity.
C12_LoadWithinCapacity ==
    (Returned /\ capacity_by_facility # None) =>
        \A f \in FixedIds : Load(f) <= Val(capacity_by_facility)[f]


\* ================================================================ pipeline
\* The tables of the pipeline.  A facilities table is a record of its
\* facility_id column (in row order), its is_existing column (None when the
\* column is absent) and the ids whose lat and lon are both present; a demand
\* table holds client_id, demanda and the ids with coordinates.  Quantities
\* of demand are counted in tenths.

\* no geocoding client around
NoGeocoding ==
    /\ client = None
    /\ call = None
    /\ io_log = <<>>

\* a solver that has not been called
NoCall ==
    /\ cost_matrix = <<>>
    /\ no_coords = {}
    /\ max_new_facilities = None
    /\ min_total_open_facilities = None
    /\ capacity_by_facility = None
    /\ forced_open_facilities = {}
    /\ candidate_facilities = None
    /\ NoDemandData
    /\ model = None
    /\ backend_calls = 0
    /\ error = None
    /\ result = None

\* ------------------------------------------------ _resolve_facility_groups
\* a cell of the is_existing column: the kind of value pandas holds and its text
FlagCells ==
    {<<"int", "1">>, <<"int", "0">>, <<"float", "1.0">>, <<"bool", "True">>,
     <<"str", "TRUE">>, <<"str", "Sim">>, <<"str", "YES">>, <<"str", "no">>,
     <<"str", "verdadeiro">>, <<"nan", "">>}

\* .astype(str): a missing cell becomes the text "nan"
astype_str(cell) == IF cell[1] = "nan" THEN "nan" ELSE cell[2]

\* .str.lower(), kept as it is
str_lower_Identity(t) == t

\* .str.lower() on the texts of FlagCells
str_lower(t) ==
    CASE t = "TRUE"  -> "true"
      [] t = "True"  -> "true"
      [] t = "Sim"   -> "sim"
      [] t = "YES"   -> "yes"
      [] OTHER       -> t

\* line 49: the keys of the map
TruthyVocabulary == {"1", "true", "yes", "sim"}

\* lines 49-50: flags mapped, a text outside the map becomes NA, NA becomes False
is_existing(table, f) ==
    str_lower(astype_str(Val(table.is_existing)[f])) \in TruthyVocabulary

\* lines 45-54
_resolve_facility_groups(table) ==
    IF IsNone(table.is_existing)
    THEN <<<<>>, table.facility_id>>
    ELSE <<SelectSeq(table.facility_id, LAMBDA f : is_existing(table, f)),
           SelectSeq(table.facility_id, LAMBDA f : ~is_existing(table, f))>>

\* facilities tables with every column of flags
InitGroups ==
    /\ \E flags \in {None} \cup {Some(fl) : fl \in [TableIds -> FlagCells]} :
          candidates = [facility_id |-> FacilityTable, is_existing |-> flags,
                        coords |-> TableIds]
    /\ fixed_costs = [f \in TableIds |-> 0]
    /\ demand_points = None
    /\ scenario_name = None
    /\ scenario = None
    /\ groups = None
    /\ long_df = None
    /\ batch = None
    /\ estimate = None
    /\ NoGeocoding
    /\ NoSession
    /\ NoReport
    /\ NoLoader
    /\ NoCall
    /\ pc = "groups"

ResolveFacilityGroups ==
    /\ pc = "groups"
    /\ groups' = Some(_resolve_facility_groups(candidates))
    /\ pc' = "grouped"
    /\ UNCHANGED <<args, candidates, demand_points, scenario_name, scenario,
                   long_df, batch, estimate, client, call, io_log, config, runs, scenario_costs,
                   scenario_indicators, dataset, output_dir, model, backend_calls, error, result>>

NextGroups == ResolveFacilityGroups

SpecGroups == InitGroups /\ [][NextGroups]_vars

\* the cells that match 1/true/yes/sim when letter case is ignored
MatchingCells ==
    {<<"int", "1">>, <<"bool", "True">>, <<"str", "TRUE">>, <<"str", "Sim">>,
     <<"str", "YES">>}

Flagged(f) ==
    /\ ~IsNone(candidates.is_existing)
    /\ Val(candidates.is_existing)[f] \in MatchingCells

Occurrences(seq, e) == Cardinality({i \in DOMAIN seq : seq[i] = e})

\* C17: _resolve_facility_groups splits the ids of the table in (existing,
\* candidates): an id is in existing exactly when its is_existing cell
\* matches 1/true/yes/sim whatever the letter case; without the column every
\* id is a candidate; every id of the table is in the two lists exactly once.
C17_GroupsPartitionTheTable ==
    pc = "grouped" =>
        LET existing == Val(groups)[1]
            cands    == Val(groups)[2]
        IN  /\ \A f \in TableIds :
                /\ Occurrences(existing, f) + Occurrences(cands, f) = 1
                /\ f \in Range(existing) <=> Flagged(f)
            /\ Range(existing) \cup Range(cands) = TableIds
            /\ Range(existing) \cap Range(cands) = {}
            /\ IsNone(candidates.is_existing) =>
                   existing = <<>> /\ cands = candidates.facility_id

\* an upper-case flag, a missing cell and a float cell in one table
C17_Witness ==
    /\ pc = "grouped"
    /\ ~IsNone(candidates.is_existing)
    /\ Val(candidates.is_existing) =
           ("A" :> <<"str", "TRUE">>) @@ ("B" :> <<"nan", "">>) @@ ("C" :> <<"float", "1.0">>)
    /\ Val(groups) = <<<<"A">>, <<"B", "C">>>>


\* ------------------------------------------------------- build_cost_matrix
\* Units: demand in tenths, tarifa_km in tenths, tributacao in hundredths,
\* salario_logistica in tenths, distances in whole km; an unrounded freight
\* cost is then a whole number of 10^-5 and a rounded one a number of cents.

\* geopy's distance between the coordinates of a site and of a demand point
DistanceKm ==
    (<<"A", "c1">> :> 1) @@ (<<"A", "c2">> :> 3) @@
    (<<"B", "c1">> :> 3) @@ (<<"B", "c2">> :> 1) @@
    (<<"C", "c1">> :> 2) @@ (<<"C", "c2">> :> 2)

\* tarifa_km: float = 1.2
tarifa_km == 12

\* the demand of a row without "demanda": 1.0
DefaultDemand == 10

DEFAULT_SCENARIO_PARAMS == [tributacao |-> 0, salario_logistica |-> 10]

\* the distance computed without looking for absent coordinates
_safe_distance_km_Unchecked(points, c, sites, f) == Some(DistanceKm[<<f, c>>])

\* lines 21-30: None when a coordinate is absent
_safe_distance_km(points, c, sites, f) ==
    IF c \notin points.coords \/ f \notin sites.coords
    THEN None
    ELSE Some(DistanceKm[<<f, c>>])

\* a freight cost that leaves the tax and the wage factor out
_compute_freight_cost_BaseOnly(demand, distance_km, tarifa, tributacao, salario_logistica) ==
    LET base_cost == demand * distance_km * tarifa
    IN  base_cost * 100 * 10

\* lines 33-42
_compute_freight_cost(demand, distance_km, tarifa, tributacao, salario_logistica) ==
    LET base_cost == demand * distance_km * tarifa
    IN  base_cost * (100 + tributacao) * salario_logistica

\* round(v, 2) of a number of 10^-5: the nearest cent, a tie to the even one
round2(v) ==
    LET q == v \div 1000
        r == v % 1000
    IN  IF r > 500 \/ (r = 500 /\ q % 2 = 1) THEN q + 1 ELSE q

\* lines 67-106: one row per site and demand point, sites in the outer loop
build_cost_matrix_rows(sites, points, params) ==
    LET m == Len(points.client_id)
    IN  [i \in 1..(Len(sites.facility_id) * m) |->
            LET f            == sites.facility_id[((i - 1) \div m) + 1]
                c            == points.client_id[((i - 1) % m) + 1]
                demand_value == IF IsNone(points.demanda) THEN DefaultDemand
                                ELSE Val(points.demanda)[c]
                dist_km      == _safe_distance_km(points, c, sites, f)
            IN  [facility_id       |-> f,
                 client_id         |-> c,
                 demanda           |-> demand_value,
                 distance_km       |-> IF IsNone(dist_km) THEN NA ELSE Val(dist_km),
                 freight_cost      |-> IF IsNone(dist_km) THEN NA
                                       ELSE round2(_compute_freight_cost(
                                                demand_value, Val(dist_km), tarifa_km,
                                                params.tributacao, params.salario_logistica)),
                 tributacao        |-> params.tributacao,
                 salario_logistica |-> params.salario_logistica]]

\* a ScenarioConfig: growth in tenths, tax in hundredths, wage factor in tenths
ScenarioConfig(growth, tax, wage, limit) ==
    [crescimento_demanda |-> growth, fator_tributario |-> tax,
     fator_salarial |-> wage, limite_novos_cds |-> limit]

\* scenario_params as execute_scenario and apply_scenario_and_recompute_costs pass them
scenario_params(sc) ==
    [tributacao |-> sc.fator_tributario, salario_logistica |-> sc.fator_salarial]

SubSeqs(seq) == {SubSeq(seq, 1, n) : n \in 0..Len(seq)}

SiteTables ==
    {[facility_id |-> ids, is_existing |-> None, coords |-> with] :
        ids \in SubSeqs(FacilityTable), with \in SUBSET TableIds}

DemandQuantities == {10, 20}

PointTables ==
    {[client_id |-> ids, demanda |-> d, coords |-> with] :
        ids \in SubSeqs(ClientOrder),
        d \in {None} \cup {Some(q) : q \in [ClientIds -> DemandQuantities]},
        with \in SUBSET ClientIds}

\* build_cost_matrix called on its own
InitMatrix ==
    /\ candidates \in {t \in SiteTables : t.coords \subseteq Range(t.facility_id)}
    /\ demand_points \in {t \in PointTables : t.coords \subseteq Range(t.client_id)}
    /\ scenario \in {ScenarioConfig(0, 0, 10, None), ScenarioConfig(0, 5, 11, None)}
    /\ fixed_costs = [f \in TableIds |-> 0]
    /\ scenario_name = None
    /\ groups = None
    /\ long_df = None
    /\ batch = None
    /\ estimate = None
    /\ NoGeocoding
    /\ NoSession
    /\ NoReport
    /\ NoLoader
    /\ NoCall
    /\ pc = "matrix"

BuildCostMatrix ==
    /\ pc = "matrix"
    /\ long_df' = Some(build_cost_matrix_rows(candidates, demand_points,
                                              scenario_params(scenario)))
    /\ pc' = "matrix_built"
    /\ UNCHANGED <<args, candidates, demand_points, scenario_name, scenario,
                   groups, batch, estimate, client, call, io_log, config, runs, scenario_costs,
                   scenario_indicators, dataset, output_dir, model, backend_calls, error, result>>

NextMatrix == BuildCostMatrix

SpecMatrix == InitMatrix /\ [][NextMatrix]_vars

RowsOf(f, c) ==
    {i \in DOMAIN Val(long_df) :
        Val(long_df)[i].facility_id = f /\ Val(long_df)[i].client_id = c}

\* C18: build_cost_matrix never raises on absent coordinates and returns one
\* row for every pair of a site and a demand point, |sites| x |points| rows
\* in all; a row of a pair with an absent coordinate has an undefined
\* distance and an undefined cost.
C18_OneRowPerPair ==
    /\ pc = "matrix" => ENABLED BuildCostMatrix
    /\ pc = "matrix_built" =>
          /\ Len(Val(long_df)) = Len(candidates.facility_id) * Len(demand_points.client_id)
          /\ \A f \in Range(candidates.facility_id), c \in Range(demand_points.client_id) :
                /\ Cardinality(RowsOf(f, c)) = 1
                /\ (f \notin candidates.coords \/ c \notin demand_points.coords) =>
                      \A i \in RowsOf(f, c) :
                          /\ Val(long_df)[i].distance_km = NA
                          /\ Val(long_df)[i].freight_cost = NA

\* three sites, two points, one site and one point without coordinates
C18_Witness ==
    /\ pc = "matrix_built"
    /\ Len(Val(long_df)) = 6
    /\ candidates.coords = {"A", "C"}
    /\ demand_points.coords = {"c1"}
    /\ Cardinality({i \in DOMAIN Val(long_df) : Val(long_df)[i].freight_cost = NA}) = 4


\* -------------------------------------------------------- execute_scenario
\* config.py: AppConfig(), default_facility_limit: int = 2
AppConfig == [default_facility_limit |-> 2]

\* config.default_facility_limit
default_facility_limit == config.default_facility_limit

\* scenarios.py lines 26-33
DEFAULT_SCENARIOS ==
    ("base" :> ScenarioConfig(0, 0, 10, None)) @@
    ("1_novo_cd" :> ScenarioConfig(0, 0, 10, Some(1))) @@
    ("2_novos_cds" :> ScenarioConfig(0, 0, 10, Some(2))) @@
    ("crescimento_10" :> ScenarioConfig(1, 0, 10, None)) @@
    ("tributo_5" :> ScenarioConfig(0, 5, 10, None)) @@
    ("salario_10" :> ScenarioConfig(0, 0, 11, None))

\* the table the scenario's demand is written on, when it is the caller's own
scenario_table_Alias(points, written) == written

\* clients.copy(): what the caller's table holds once "demanda" was written
\* on the copy
scenario_table(points, written) == points

\* cli.py lines 66-67, scenarios.py lines 65-68: the column "demanda" times
\* (1 + crescimento_demanda), written on a copy of the table
scenario_demand(points, sc) ==
    [points EXCEPT !.demanda =
        Some([c \in DOMAIN Val(points.demanda) |->
                 (Val(points.demanda)[c] * (10 + sc.crescimento_demanda)) \div 10])]

\* lines 80-88 without the baseline branch
scenario_max_new_NoBaseline(name, sc, existing) ==
    IF sc.limite_novos_cds # None /\ existing # <<>>
    THEN Val(sc.limite_novos_cds)
    ELSE IF sc.limite_novos_cds # None /\ Val(sc.limite_novos_cds) # 0
         THEN Val(sc.limite_novos_cds)
         ELSE default_facility_limit

\* lines 80-88 with a limit that allows one opening fewer than it says
scenario_max_new_LimitLessOne(name, sc, existing) ==
    IF name = "base" /\ existing # <<>>
    THEN 0
    ELSE IF sc.limite_novos_cds # None /\ existing # <<>>
         THEN Val(sc.limite_novos_cds)
         ELSE IF sc.limite_novos_cds # None /\ Val(sc.limite_novos_cds) # 0
              THEN Val(sc.limite_novos_cds) - 1
              ELSE default_facility_limit

\* lines 80-88: max_new; "limite_novos_cds or default_facility_limit" takes
\* the default for None and for 0
scenario_max_new(name, sc, existing) ==
    IF name = "base" /\ existing # <<>>
    THEN 0
    ELSE IF sc.limite_novos_cds # None /\ existing # <<>>
         THEN Val(sc.limite_novos_cds)
         ELSE IF sc.limite_novos_cds # None /\ Val(sc.limite_novos_cds) # 0
              THEN Val(sc.limite_novos_cds)
              ELSE default_facility_limit

\* lines 80-88 with the floor of the second branch left at len(existing)
scenario_min_total_open_ExistingOnly(name, sc, existing) ==
    IF existing # <<>> /\ (name = "base" \/ sc.limite_novos_cds # None)
    THEN Some(Len(existing))
    ELSE None

\* lines 80-88: min_total_open
scenario_min_total_open(name, sc, existing) ==
    IF name = "base" /\ existing # <<>>
    THEN Some(Len(existing))
    ELSE IF sc.limite_novos_cds # None /\ existing # <<>>
         THEN Some(Len(existing) + Val(sc.limite_novos_cds))
         ELSE None

\* the long table as solve_facility_location reads it: the cost of each pair
MatrixOf(rows) ==
    [p \in {<<rows[i].facility_id, rows[i].client_id>> : i \in DOMAIN rows} |->
        LET i == CHOOSE j \in DOMAIN rows : <<rows[j].facility_id, rows[j].client_id>> = p
        IN  rows[i].freight_cost]

LimitChoices == {None} \cup {Some(k) : k \in 0..MaxLimit}

ScenarioChoices ==
    {<<n, DEFAULT_SCENARIOS[n]>> : n \in DOMAIN DEFAULT_SCENARIOS}
    \cup {<<n, ScenarioConfig(0, 0, 10, l)>> : n \in {"base", "expansao"}, l \in LimitChoices}

ExistingCells == {<<"str", "Sim">>, <<"int", "0">>}

FacilitiesCsv ==
    UNION {{[facility_id |-> ids, is_existing |-> fl, coords |-> Range(ids) \ lost] :
               fl \in {None} \cup {Some(c) : c \in [Range(ids) -> ExistingCells]},
               lost \in {{}, {"A"}}} :
           ids \in {FacilityTable, SubSeq(FacilityTable, 1, 2)}}

\* fixed costs in cents, as the freight costs of the long table
FixedCostsCsv ==
    {[f \in D |-> v] : D \in {TableIds, {"A", "B"}}, v \in {0, 200}}

\* facilities.csv, clients.csv, fixed_costs.csv and the scenario to execute
InitScenario ==
    /\ candidates \in FacilitiesCsv
    /\ demand_points = [client_id |-> ClientOrder,
                        demanda |-> Some([c \in ClientIds |-> DefaultDemand]),
                        coords |-> ClientIds]
    /\ \E sc \in ScenarioChoices :
          /\ scenario_name = sc[1]
          /\ scenario = sc[2]
    /\ fixed_costs \in FixedCostsCsv
    /\ groups = None
    /\ long_df = None
    /\ batch = None
    /\ estimate = None
    /\ NoGeocoding
    /\ config = AppConfig
    /\ runs = <<>>
    /\ NoReport
    /\ NoLoader
    /\ NoCall
    /\ pc = "scenario"

\* lines 59-97, up to the call of solve_facility_location
ExecuteScenario ==
    /\ pc = "scenario"
    /\ LET scenario_clients == scenario_demand(demand_points, scenario)
           rows     == build_cost_matrix_rows(candidates, scenario_clients,
                                              scenario_params(scenario))
           grp      == _resolve_facility_groups(candidates)
           existing == grp[1]
       IN  /\ demand_points' = scenario_table(demand_points, scenario_clients)
           /\ long_df' = Some(rows)
           /\ groups' = Some(grp)
           /\ cost_matrix' = MatrixOf(rows)
           /\ no_coords' = Range(candidates.facility_id) \ candidates.coords
           /\ demanda' = scenario_clients.demanda
           /\ client_ids_are_str' = TRUE
           /\ max_new_facilities' = Some(scenario_max_new(scenario_name, scenario, existing))
           /\ min_total_open_facilities' =
                  scenario_min_total_open(scenario_name, scenario, existing)
           /\ forced_open_facilities' = Range(existing)
           /\ candidate_facilities' = Some(Range(grp[2]))
    /\ pc' = "start"
    /\ UNCHANGED <<fixed_costs, capacity_by_facility, demand_by_client,
                   candidates, scenario_name, scenario, batch, estimate,
                   client, call, io_log, config, runs, scenario_costs,
                   scenario_indicators, dataset, output_dir, model, backend_calls, error, result>>

NextScenario ==
    \/ ExecuteScenario
    \/ Next

SpecScenario == InitScenario /\ [][NextScenario]_vars

\* the facilities of facilities.csv flagged existing, and the others
ExistingIds == {f \in Range(candidates.facility_id) : Flagged(f)}
CandidateIds == Range(candidates.facility_id) \ ExistingIds

Executed == pc \in {"start", "built", "raised", "returned"}

LimitGiven == scenario.limite_novos_cds # None

\* C14: the scenario named base, with existing facilities, is solved with
\* max_new = 0 and min_total_open = |existing| whatever its limite_novos_cds;
\* a returned result opens the existing facilities and no other, and every
\* client is assigned to an existing facility.
C14_BaselineIsFrozen ==
    (Executed /\ scenario_name = "base" /\ ExistingIds # {}) =>
        /\ max_new_facilities = Some(0)
        /\ min_total_open_facilities = Some(Cardinality(ExistingIds))
        /\ Returned =>
              /\ OpenSet = ExistingIds
              /\ Len(Res.open_facilities) = Cardinality(ExistingIds)
              /\ \A c \in DOMAIN Res.allocation : Res.allocation[c] \in ExistingIds

\* base given a limit of 2, one existing site among three: only that one opens
C14_Witness ==
    /\ Returned
    /\ scenario_name = "base"
    /\ scenario.limite_novos_cds = Some(2)
    /\ ExistingIds = {"B"}
    /\ CandidateIds = {"A", "C"}
    /\ OpenSet = {"B"}

\* C15: a scenario other than base, with a limit k and existing facilities,
\* is solved with max_new = k and min_total_open = |existing| + k; a returned
\* result opens every existing facility and exactly k candidates, and nothing
\* is returned when there are fewer than k candidates.
C15_ExpansionOpensExactlyK ==
    (Executed /\ scenario_name # "base" /\ LimitGiven /\ ExistingIds # {}) =>
        LET k == Val(scenario.limite_novos_cds)
        IN  /\ max_new_facilities = Some(k)
            /\ min_total_open_facilities = Some(Cardinality(ExistingIds) + k)
            /\ Returned =>
                  /\ ExistingIds \subseteq OpenSet
                  /\ OpenSet \ ExistingIds \subseteq CandidateIds
                  /\ Cardinality(OpenSet \ ExistingIds) = k
            /\ Cardinality(CandidateIds) < k => ~Returned

\* one existing site and a limit of 2: both candidates open
C15_Witness ==
    /\ Returned
    /\ scenario_name = "2_novos_cds"
    /\ ExistingIds = {"A"}
    /\ OpenSet = {"A", "B", "C"}

\* C16: in every other case max_new is the limit whenever one is given, 0
\* included, and default_facility_limit only when none is given;
\* min_total_open is unset.
C16_GivenLimitIsTheCap ==
    (Executed /\ ~(scenario_name = "base" /\ ExistingIds # {})
              /\ ~(LimitGiven /\ ExistingIds # {})) =>
        /\ LimitGiven => max_new_facilities = scenario.limite_novos_cds
        /\ ~LimitGiven => max_new_facilities = Some(default_facility_limit)
        /\ min_total_open_facilities = None


\* ----------------------------------------------------- run_scenarios_batch
\* scenarios.py lines 56-79: the matrix of a scenario
apply_scenario_and_recompute_costs(sites, points, sc) ==
    build_cost_matrix_rows(sites, scenario_demand(points, sc), scenario_params(sc))

\* round(a / b, 6) with a in cents and b in tenths, as a number of 10^-6
avg_cost_per_unit(total_freight_cost, total_demand) ==
    IF total_demand = 0 THEN 0
    ELSE ((total_freight_cost * 200000) \div total_demand + 1) \div 2

\* lines 100-113: the row of a scenario; sum() skips the undefined costs
comparative_row(name, sc, cm) ==
    LET total_freight_cost ==
            SumSeq([i \in DOMAIN cm |->
                       IF cm[i].freight_cost = NA THEN 0 ELSE cm[i].freight_cost], Len(cm))
        total_demand == SumSeq([i \in DOMAIN cm |-> cm[i].demanda], Len(cm))
    IN  [scenario            |-> name,
         crescimento_demanda |-> sc.crescimento_demanda,
         fator_tributario    |-> sc.fator_tributario,
         fator_salarial      |-> sc.fator_salarial,
         limite_novos_cds    |-> sc.limite_novos_cds,
         total_demand        |-> total_demand,
         total_freight_cost  |-> total_freight_cost,
         avg_cost_per_unit   |-> avg_cost_per_unit(total_freight_cost, total_demand)]

\* the order of the scenario names as strings
NameRank ==
    ("1_novo_cd" :> 1) @@ ("2_novos_cds" :> 2) @@ ("base" :> 3) @@
    ("crescimento_10" :> 4) @@ ("salario_10" :> 5) @@ ("tributo_5" :> 6)

\* line 115: sort_values("scenario")
sort_by_scenario(rows) ==
    SortSeq(rows, LAMBDA a, b : NameRank[a.scenario] < NameRank[b.scenario])

\* selected = dict(scenarios or DEFAULT_SCENARIOS), in the order of the dict
DefaultBatch ==
    <<"base", "1_novo_cd", "2_novos_cds", "crescimento_10", "tributo_5", "salario_10">>

BatchPool == {"base", "crescimento_10", "tributo_5"}

CustomBatches ==
    {q \in UNION {[1..n -> BatchPool] : n \in 1..MaxBatch} :
        \A i, j \in DOMAIN q : q[i] = q[j] => i = j}

InitBatch ==
    /\ candidates \in {[facility_id |-> ids, is_existing |-> None, coords |-> Range(ids) \ lost] :
                          ids \in {FacilityTable, SubSeq(FacilityTable, 1, 2)},
                          lost \in {{}, {"A"}}}
    /\ demand_points \in {[client_id |-> ClientOrder, demanda |-> d, coords |-> with] :
                             d \in {None} \cup {Some(q) : q \in [ClientIds -> DemandQuantities]},
                             with \in {ClientIds, {"c1"}, {}}}
    /\ \E names \in {DefaultBatch} \cup CustomBatches :
          batch = [todo |-> [i \in DOMAIN names |-> <<names[i], DEFAULT_SCENARIOS[names[i]]>>],
                   comparative_rows |-> <<>>]
    /\ fixed_costs = [f \in TableIds |-> 0]
    /\ scenario_name = None
    /\ scenario = None
    /\ groups = None
    /\ long_df = None
    /\ estimate = None
    /\ NoGeocoding
    /\ NoSession
    /\ NoReport
    /\ NoLoader
    /\ NoCall
    /\ pc = "batch"

\* line 63, _resolve_demand_column: neither "demanda" nor "demand"
RaiseNoDemandColumn ==
    /\ pc = "batch"
    /\ batch.todo # <<>>
    /\ IsNone(demand_points.demanda)
    /\ Raise("ValueError", "demand_column", <<>>)

\* lines 92-113: one turn of the loop
BatchScenario ==
    /\ pc = "batch"
    /\ batch.todo # <<>>
    /\ ~IsNone(demand_points.demanda)
    /\ LET name == Head(batch.todo)[1]
           sc   == Head(batch.todo)[2]
           cm   == apply_scenario_and_recompute_costs(candidates, demand_points, sc)
       IN  /\ batch' = [todo |-> Tail(batch.todo),
                        comparative_rows |->
                            Append(batch.comparative_rows, comparative_row(name, sc, cm))]
           /\ demand_points' = scenario_table(demand_points, scenario_demand(demand_points, sc))
           /\ long_df' = Some(cm)
    /\ UNCHANGED <<args, candidates, scenario_name, scenario, groups, estimate,
                   pc, client, call, io_log, config, runs, scenario_costs,
                   scenario_indicators, dataset, output_dir, model, backend_calls, error, result>>

\* lines 115-117: the rows sorted by scenario and returned
BatchReturn ==
    /\ pc = "batch"
    /\ batch.todo = <<>>
    /\ batch' = [batch EXCEPT !.comparative_rows = sort_by_scenario(@)]
    /\ pc' = "batch_returned"
    /\ UNCHANGED <<args, candidates, demand_points, scenario_name, scenario,
                   groups, long_df, estimate, client, call, io_log, config, runs, scenario_costs,
                   scenario_indicators, dataset, output_dir, model, backend_calls, error, result>>

NextBatch ==
    \/ RaiseNoDemandColumn
    \/ BatchScenario
    \/ BatchReturn

SpecBatch == InitBatch /\ [][NextBatch]_vars

\* the row of a scenario run on its own on the tables as they are now
RowAlone(name) ==
    comparative_row(name, DEFAULT_SCENARIOS[name],
                    apply_scenario_and_recompute_costs(candidates, demand_points,
                                                       DEFAULT_SCENARIOS[name]))

\* C19: a scenario of a batch leaves the caller's candidates and
\* demand_points as they were, and the row of every scenario is the row that
\* scenario gets when it is run alone, whatever ran before it.
C19_BatchLeavesTheTablesAlone ==
    /\ [][candidates' = candidates /\ demand_points' = demand_points]_vars
    /\ [](pc \in {"batch", "batch_returned"} =>
            \A i \in DOMAIN batch.comparative_rows :
                batch.comparative_rows[i] = RowAlone(batch.comparative_rows[i].scenario))

\* the base scenario run after the growth scenario, on demands of 1.0 and 2.0
C19_Witness ==
    /\ pc = "batch_returned"
    /\ Len(batch.comparative_rows) = 2
    /\ batch.comparative_rows[1].scenario = "base"
    /\ batch.comparative_rows[2].scenario = "crescimento_10"
    /\ batch.comparative_rows[1].total_demand = 3 * (10 + 20)
    /\ batch.comparative_rows[2].total_demand = 3 * (11 + 22)
    /\ long_df # None /\ Val(long_df)[1].demanda = 10


\* ---------------------------------------------------- estimate_fixed_costs
\* Units: occupancy and tax_factor and transport_factor in hundredths,
\* labor_cost_index in tenths, areas in m2, money in cents.  A cell of the
\* column ocupacao is <<"num", hundredths>>, <<"text", 0>> (not a number) or
\* <<"nan", 0>> (missing).

\* regional_costs.csv
RegionalCosts ==
    ("SP" :> [labor_cost_index |-> 11, real_estate_cost_m2 |-> 60,
              tax_factor |-> 10, transport_factor |-> 105]) @@
    ("MG" :> [labor_cost_index |-> 9, real_estate_cost_m2 |-> 40,
              tax_factor |-> 8, transport_factor |-> 100])

\* CostEstimationConfig
capacidade_padrao_m2 == 4000
custo_utilidades_pct == 12
custo_overhead_pct == 8
custo_inbound_base == 8000000

\* the default of the column ocupacao, 0.75
DefaultOcupacao == 75

\* lines 24-27: the column as numbers, the default where it has none
_safe_series(column, f, default) ==
    IF IsNone(column) THEN default
    ELSE IF Val(column)[f][1] = "num" THEN Val(column)[f][2]
    ELSE default

\* .clip(upper=1.0) alone
clip_UpperOnly(v) == IF v > 100 THEN 100 ELSE v

\* .clip(lower=0.1, upper=1.0)
clip(v) == IF v < 10 THEN 10 ELSE IF v > 100 THEN 100 ELSE v

\* a * pct / 100 to the nearest cent
percent_of(a, pct) ==
    (a \div 100) * pct + ((a % 100) * pct + 50) \div 100

\* lines 61-84: the row of a facility
estimate_row(table, f) ==
    LET region           == RegionalCosts[table.uf[f]]
        capacidade_m2    == _safe_series(table.capacidade_m2, f, capacidade_padrao_m2)
        ocupacao         == clip(_safe_series(table.ocupacao, f, DefaultOcupacao))
        labor_cost       == region.labor_cost_index * ocupacao * 25000
        real_estate_cost == region.real_estate_cost_m2 * capacidade_m2 * 100
        utilities        == percent_of(labor_cost + real_estate_cost, custo_utilidades_pct)
        overhead         == percent_of(labor_cost + real_estate_cost, custo_overhead_pct)
        inbound_cost     == percent_of(custo_inbound_base, region.transport_factor)
        operational      == labor_cost + real_estate_cost + utilities + overhead + inbound_cost
    IN  [facility_id      |-> f,
         labor_cost       |-> labor_cost,
         real_estate_cost |-> real_estate_cost,
         utilities_cost   |-> utilities,
         overhead_cost    |-> overhead,
         inbound_cost     |-> inbound_cost,
         tax_factor       |-> region.tax_factor,
         fixed_cost       |-> operational + percent_of(operational, region.tax_factor)]

EstimateIds == <<"A", "B">>

OcupacaoCells ==
    {<<"num", v>> : v \in {-20, 5, 10, 50, 100, 150}} \cup {<<"text", 0>>, <<"nan", 0>>}

\* facilities.csv with the columns the estimation reads
InitEstimate ==
    /\ \E uf \in [Range(EstimateIds) -> {"SP", "MG", "XX"}],
          occ \in {None} \cup {Some(o) : o \in [Range(EstimateIds) -> OcupacaoCells]},
          cap \in {None, Some([f \in Range(EstimateIds) |-> <<"num", 5000>>])} :
          candidates = [facility_id |-> EstimateIds, uf |-> uf, ocupacao |-> occ,
                        capacidade_m2 |-> cap]
    /\ fixed_costs = [f \in TableIds |-> 0]
    /\ demand_points = None
    /\ scenario_name = None
    /\ scenario = None
    /\ groups = None
    /\ long_df = None
    /\ batch = None
    /\ estimate = None
    /\ NoGeocoding
    /\ NoSession
    /\ NoReport
    /\ NoLoader
    /\ NoCall
    /\ pc = "estimate"

\* lines 57-59: a facility whose uf has no row in regional_costs
RaiseNoRegionalParams ==
    /\ pc = "estimate"
    /\ \E f \in Range(candidates.facility_id) : candidates.uf[f] \notin DOMAIN RegionalCosts
    /\ Raise("ValueError", "regional_params", <<>>)

\* lines 61-86
EstimateFixedCosts ==
    /\ pc = "estimate"
    /\ \A f \in Range(candidates.facility_id) : candidates.uf[f] \in DOMAIN RegionalCosts
    /\ estimate' = Some([i \in DOMAIN candidates.facility_id |->
                            estimate_row(candidates, candidates.facility_id[i])])
    /\ pc' = "estimated"
    /\ UNCHANGED <<args, candidates, demand_points, scenario_name, scenario,
                   groups, long_df, batch, client, call, io_log, config, runs, scenario_costs,
                   scenario_indicators, dataset, output_dir, model, backend_calls, error, result>>

NextEstimate ==
    \/ RaiseNoRegionalParams
    \/ EstimateFixedCosts

SpecEstimate == InitEstimate /\ [][NextEstimate]_vars

\* the occupancy a facility reports, when it reports a number
Reports(f, v) ==
    /\ ~IsNone(candidates.ocupacao)
    /\ Val(candidates.ocupacao)[f] = <<"num", v>>

LaborCostOf(f) ==
    LET i == CHOOSE j \in DOMAIN Val(estimate) : Val(estimate)[j].facility_id = f
    IN  Val(estimate)[i].labor_cost

SameRegion(f, g) == candidates.uf[f] = candidates.uf[g]

\* C20: estimate_fixed_costs clamps the occupancy into [0.1, 1.0] before the
\* labor cost: of two facilities of one region, one reporting less than 0.1
\* (0.05) and one reporting 0.1 get the same labor cost, and so do one
\* reporting more than 1.0 and one reporting 1.0; between the two ends the
\* labor cost follows the occupancy.
C20_OccupancyIsClamped ==
    pc = "estimated" =>
        \A f, g \in Range(candidates.facility_id) : SameRegion(f, g) =>
            \A v, w \in {-20, 5, 10, 50, 100, 150} : (Reports(f, v) /\ Reports(g, w)) =>
                /\ (v < 10 /\ w = 10) => LaborCostOf(f) = LaborCostOf(g)
                /\ (v > 100 /\ w = 100) => LaborCostOf(f) = LaborCostOf(g)
                /\ (10 <= v /\ v < w /\ w <= 100) => LaborCostOf(f) < LaborCostOf(g)

\* occupancies 0.05 and 0.1 in one region
C20_Witness ==
    /\ pc = "estimated"
    /\ Reports("A", 5)
    /\ Reports("B", 10)
    /\ SameRegion("A", "B")
    /\ LaborCostOf("A") = LaborCostOf("B")
    /\ LaborCostOf("A") = RegionalCosts[candidates.uf["A"]].labor_cost_index * 10 * 25000


\* ========================================================= GeocodingClient
\* A result is a record of cidade, uf, lat, lon, found, warning, source; lat,
\* lon and warning are None or Some(v).  The two warnings are written by the
\* sentence that tells them apart; both end with "Registro marcado e pipeline
\* seguirá com aviso."  backoff_seconds is counted in hundredths of a second.

NotFoundWarning == "Não foi possível encontrar coordenada; pipeline seguirá com aviso"
TimeoutWarning == "Falha por timeout; pipeline seguirá com aviso"

\* the (cidade, uf) pairs asked for
Places == {<<"São Paulo", "SP">>, <<" são paulo ", "sp">>, <<"Belo Horizonte", "MG">>}

\* str.strip() alone
strip_lower_StripOnly(t) ==
    CASE t = " são paulo " -> "são paulo"
      [] OTHER -> t

\* str.strip().lower() on the texts of Places
strip_lower(t) ==
    CASE t = "São Paulo"      -> "são paulo"
      [] t = " são paulo "    -> "são paulo"
      [] t = "SP"             -> "sp"
      [] t = "Belo Horizonte" -> "belo horizonte"
      [] t = "MG"             -> "mg"
      [] OTHER                -> t

\* lines 142-143: "cidade|uf", both stripped and lower-cased
_cache_key(cidade, uf) == <<strip_lower(cidade), strip_lower(uf)>>

\* what geocoder.geocode(query) does: it times out, finds nothing, or
\* answers with a location
Location == [latitude |-> -23, longitude |-> -46]
Responses == {"timeout", "none", "location"}

GeocodeResult(cidade, uf, lat, lon, found, warning, source) ==
    [cidade |-> cidade, uf |-> uf, lat |-> lat, lon |-> lon, found |-> found,
     warning |-> warning, source |-> source]

\* lines 203-211
_result_to_dict(r) ==
    [cidade |-> r.cidade, uf |-> r.uf, lat |-> r.lat, lon |-> r.lon,
     found |-> r.found, warning |-> r.warning]

\* lines 192-201
_dict_to_result(value, source) ==
    GeocodeResult(value.cidade, value.uf, value.lat, value.lon, value.found,
                  value.warning, source)

\* lines 87-98
not_found_result(cidade, uf) ==
    GeocodeResult(cidade, uf, None, None, FALSE, Some(NotFoundWarning), "api")

\* lines 101-107
found_result(cidade, uf) ==
    GeocodeResult(cidade, uf, Some(Location.latitude), Some(Location.longitude),
                  TRUE, None, "api")

\* lines 125-136
timeout_result(cidade, uf) ==
    GeocodeResult(cidade, uf, None, None, FALSE, Some(TimeoutWarning), "api")

RECURSIVE Pow2(_)
Pow2(n) == IF n = 0 THEN 1 ELSE 2 * Pow2(n - 1)

\* the wait without the doubling
wait_seconds_Constant(backoff_seconds, attempt) == backoff_seconds

\* line 122
wait_seconds(backoff_seconds, attempt) == backoff_seconds * Pow2(attempt - 1)

\* lines 173-190: _save_cache writes .json and .csv files and raises
\* ValueError for any other suffix
SavesCache == client.cache_suffix \in {".json", ".csv"}

\* a cache left by an earlier session
StoredCaches ==
    {<<>>, (<<"são paulo", "sp">> :> _result_to_dict(found_result("São Paulo", "SP")))}

\* __init__: _load_cache raises for another suffix only when the file exists
InitGeocode ==
    /\ \E retries \in 0..MaxRetries, backoff \in {1, 5},
          suffix \in {".json", ".csv", ".txt"}, stored \in StoredCaches :
          /\ suffix = ".txt" => stored = <<>>
          /\ client = [max_retries |-> retries, backoff_seconds |-> backoff,
                       cache_suffix |-> suffix, _cache |-> stored]
    /\ call = None
    /\ io_log = <<>>
    /\ fixed_costs = [f \in TableIds |-> 0]
    /\ candidates = None
    /\ demand_points = None
    /\ scenario_name = None
    /\ scenario = None
    /\ groups = None
    /\ long_df = None
    /\ batch = None
    /\ estimate = None
    /\ NoSession
    /\ NoReport
    /\ NoLoader
    /\ NoCall
    /\ pc = "geo_idle"

\* lines 110-112 and 138-140: the result goes to _cache, _save_cache runs,
\* the result is returned unless _save_cache raised
StoreAndReturn(r) ==
    /\ client' = [client EXCEPT !._cache =
                     (_cache_key(r.cidade, r.uf) :> _result_to_dict(r)) @@ @]
    /\ pc' = "geo_idle"
    /\ IF SavesCache
       THEN result' = Some(r) /\ error' = None
       ELSE /\ result' = None
            /\ error' = Some([type |-> "ValueError", what |-> "cache_path", detail |-> <<>>])

geoFrame == <<args, candidates, demand_points, scenario_name, scenario, groups,
              long_df, batch, estimate, config, runs, scenario_costs,
              scenario_indicators, dataset, output_dir, model, backend_calls>>

\* lines 75-81: the key is in _cache
GeocodeCacheHit ==
    /\ pc = "geo_idle"
    /\ \E place \in Places :
          /\ _cache_key(place[1], place[2]) \in DOMAIN client._cache
          /\ result' = Some(_dict_to_result(client._cache[_cache_key(place[1], place[2])],
                                            "cache"))
          /\ call' = Some([cidade |-> place[1], uf |-> place[2], attempt |-> 0])
    /\ error' = None
    /\ io_log' = <<>>
    /\ UNCHANGED <<geoFrame, client, pc>>

\* lines 75-83: the key is not in _cache and the loop has a first turn
GeocodeBegin ==
    /\ pc = "geo_idle"
    /\ client.max_retries >= 1
    /\ \E place \in Places :
          /\ _cache_key(place[1], place[2]) \notin DOMAIN client._cache
          /\ call' = Some([cidade |-> place[1], uf |-> place[2], attempt |-> 1])
    /\ io_log' = <<>>
    /\ pc' = "geo_try"
    /\ result' = None
    /\ error' = None
    /\ UNCHANGED <<geoFrame, client>>

\* lines 75-83 and 125-140: range(1, max_retries + 1) is empty
GeocodeNoAttempt ==
    /\ pc = "geo_idle"
    /\ client.max_retries < 1
    /\ \E place \in Places :
          /\ _cache_key(place[1], place[2]) \notin DOMAIN client._cache
          /\ call' = Some([cidade |-> place[1], uf |-> place[2], attempt |-> 0])
          /\ StoreAndReturn(timeout_result(place[1], place[2]))
    /\ io_log' = <<>>
    /\ UNCHANGED geoFrame

\* lines 85-99 and 110-112: the geocoder finds nothing
AttemptNotFound ==
    /\ pc = "geo_try"
    /\ io_log' = Append(io_log, <<"geocode", "none">>)
    /\ StoreAndReturn(not_found_result(Val(call).cidade, Val(call).uf))
    /\ UNCHANGED <<geoFrame, call>>

\* lines 85, 100-112: the geocoder answers
AttemptFound ==
    /\ pc = "geo_try"
    /\ io_log' = Append(io_log, <<"geocode", "location">>)
    /\ StoreAndReturn(found_result(Val(call).cidade, Val(call).uf))
    /\ UNCHANGED <<geoFrame, call>>

\* lines 113-123: a timeout before the last attempt, the sleep and the next turn
AttemptTimeoutSleep ==
    /\ pc = "geo_try"
    /\ Val(call).attempt # client.max_retries
    /\ io_log' = io_log \o <<<<"geocode", "timeout">>,
                             <<"sleep", wait_seconds(client.backoff_seconds, Val(call).attempt)>>>>
    /\ call' = Some([Val(call) EXCEPT !.attempt = @ + 1])
    /\ UNCHANGED <<geoFrame, client, pc, result, error>>

\* lines 113-121 and 125-140: a timeout at the last attempt
AttemptTimeoutLast ==
    /\ pc = "geo_try"
    /\ Val(call).attempt = client.max_retries
    /\ io_log' = Append(io_log, <<"geocode", "timeout">>)
    /\ StoreAndReturn(timeout_result(Val(call).cidade, Val(call).uf))
    /\ UNCHANGED <<geoFrame, call>>

NextGeocode ==
    \/ GeocodeCacheHit
    \/ GeocodeBegin
    \/ GeocodeNoAttempt
    \/ AttemptNotFound
    \/ AttemptFound
    \/ AttemptTimeoutSleep
    \/ AttemptTimeoutLast

SpecGeocode == InitGeocode /\ [][NextGeocode]_vars


GeoReturned == pc = "geo_idle" /\ result # None
GeoRaised == pc = "geo_idle" /\ error # None
GeoRes == Val(result)

\* the (cidade, uf) pairs that are equal once trimmed and lower-cased
SamePlace(p, q) ==
    \/ p = q
    \/ {p, q} = {<<"São Paulo", "SP">>, <<" são paulo ", "sp">>}

\* the entries of _cache stored for a place
EntriesOf(q) ==
    {client._cache[k] : k \in {j \in DOMAIN client._cache :
        SamePlace(<<client._cache[j].cidade, client._cache[j].uf>>, q)}}

\* a result holds what an entry of the cache holds
Holds(r, v) ==
    /\ r.cidade = v.cidade
    /\ r.uf = v.uf
    /\ r.lat = v.lat
    /\ r.lon = v.lon
    /\ r.found = v.found
    /\ r.warning = v.warning

\* a call of geocode_city_uf for q begins in this step
CallBegins(q) ==
    /\ pc = "geo_idle"
    /\ call' = Some([cidade |-> q[1], uf |-> q[2], attempt |-> Val(call').attempt])

\* C21: once geocode_city_uf has returned for a (cidade, uf), found or not or
\* failed on timeouts, its result is stored, stays stored, and every later
\* call with a key equal after trimming and lower-casing returns the stored
\* result with source "cache" without calling the geocoder.
C21_LaterCallsAreServedFromCache ==
    /\ [](GeoReturned => \E v \in EntriesOf(<<Val(call).cidade, Val(call).uf>>) :
                             Holds(GeoRes, v))
    /\ [][\A q \in Places : \A v \in EntriesOf(q) :
             /\ v \in EntriesOf(q)'
             /\ CallBegins(q) =>
                   /\ pc' = "geo_idle"
                   /\ result' # None
                   /\ Holds(Val(result'), v)
                   /\ Val(result').source = "cache"
                   /\ io_log' = <<>>]_vars

\* a place stored after timeouts only is asked again under another spelling
C21_Witness ==
    /\ GeoReturned
    /\ call = Some([cidade |-> " são paulo ", uf |-> "sp", attempt |-> 0])
    /\ GeoRes = GeocodeResult("São Paulo", "SP", None, None, FALSE,
                              Some(TimeoutWarning), "cache")
    /\ client.max_retries = 2
    /\ io_log = <<>>


IsGeocode(e) == e[1] = "geocode"
IsSleep(e) == e[1] = "sleep"
TimedOut(e) == IsGeocode(e) /\ e[2] = "timeout"
Answered(e) == IsGeocode(e) /\ e[2] # "timeout"

GeocoderCalls == Cardinality({i \in DOMAIN io_log : IsGeocode(io_log[i])})
Sleeps == Cardinality({i \in DOMAIN io_log : IsSleep(io_log[i])})
Timeouts == Cardinality({i \in DOMAIN io_log : TimedOut(io_log[i])})

\* the call is over and the geocoder answered its last attempt
EndedOnAnAnswer ==
    /\ pc = "geo_idle"
    /\ io_log # <<>>
    /\ Answered(io_log[Len(io_log)])

\* C22: when the geocoder times out n times and then answers, n below
\* max_retries, geocode_city_uf has called it n+1 times and slept n times;
\* the i-th sleep lasts backoff_seconds * 2^(i-1) and stands between the
\* i-th timeout and the next attempt; nothing follows the answered attempt.
C22_BackoffBetweenAttempts ==
    EndedOnAnAnswer =>
        LET n == Timeouts
        IN  /\ n < client.max_retries
            /\ GeocoderCalls = n + 1
            /\ Sleeps = n
            /\ Len(io_log) = 2 * n + 1
            /\ \A i \in 1..n :
                  /\ TimedOut(io_log[2 * i - 1])
                  /\ IsSleep(io_log[2 * i])
                  /\ io_log[2 * i][2] = client.backoff_seconds * Pow2(i - 1)

\* two timeouts and an answer, as in test_geocode_city_uf_retries_on_timeout
C22_Witness ==
    /\ GeoReturned
    /\ GeoRes.found
    /\ client.max_retries = 3
    /\ client.backoff_seconds = 1
    /\ io_log = <<<<"geocode", "timeout">>, <<"sleep", 1>>, <<"geocode", "timeout">>,
                  <<"sleep", 2>>, <<"geocode", "location">>>>

\* the result of an attempt that found nothing
IsNotFoundResult(r) ==
    /\ r.found = FALSE
    /\ r.lat = None
    /\ r.lon = None
    /\ r.warning = Some(NotFoundWarning)

\* C23: when the geocoder answers with no location, geocode_city_uf returns
\* at once, without another attempt, without a sleep after it and without
\* raising, a result with found=False, lat=None, lon=None and the warning
\* that the pipeline goes on.
C23_NotFoundReturnsAtOnce ==
    /\ \A i \in DOMAIN io_log :
          (IsGeocode(io_log[i]) /\ io_log[i][2] = "none") => i = Len(io_log)
    /\ (io_log # <<>> /\ IsGeocode(io_log[Len(io_log)]) /\ io_log[Len(io_log)][2] = "none") =>
          /\ pc = "geo_idle"
          /\ ~GeoRaised
          /\ GeoReturned
          /\ IsNotFoundResult(GeoRes)

\* the same for the clients whose cache_path ends in .json or .csv
C23_Side ==
    SavesCache => C23_NotFoundReturnsAtOnce

\* C30: a call of geocode_city_uf never makes more than max_retries geocoder
\* calls nor more than max_retries - 1 sleeps; when every attempt timed out,
\* or max_retries is 0, it returns a result with found=False and the timeout
\* warning and does not raise.
C30_BoundedAttemptsThenFallback ==
    /\ call # None => GeocoderCalls <= client.max_retries
    /\ call # None => Sleeps <= client.max_retries - 1
    /\ (pc = "geo_idle" /\ call # None /\ GeocoderCalls = Timeouts
            /\ (Val(call).attempt >= 1 \/ client.max_retries = 0)) =>
          ((GeoReturned /\ GeoRes.source = "cache")
           \/ /\ ~GeoRaised
              /\ GeoReturned
              /\ GeoRes.found = FALSE
              /\ GeoRes.warning = Some(TimeoutWarning))


\* the same for the clients that save their cache and try at least once
C30_Side ==
    (SavesCache /\ client.max_retries >= 1) => C30_BoundedAttemptsThenFallback


\* ---------------------------------------------------------- eligible sites
\* the sites of the fixed-cost table that are neither forced open nor
\* candidates, when the candidates are passed
Ineligible ==
    IF IsNone(candidate_facilities) THEN {}
    ELSE FixedIds \ (forced_open_facilities \cup Val(candidate_facilities))

\* C28: when candidate_facilities is passed, a site of the fixed-cost table
\* that is neither forced open nor a candidate is not in open_facilities
\* and serves no client in a returned result.
C28_OnlyEligibleSitesOpen ==
    Returned =>
        \A f \in Ineligible :
            /\ f \notin OpenSet
            /\ \A c \in DOMAIN Res.allocation : Res.allocation[c] # f


\* =============================================== generate_executive_report
\* The report is the sequence of its lines; a line is the sequence of the
\* pieces of text and the numbers it is made of.

\* line 47
RequiredScenarios == {"base", "1_novo_cd", "2_novos_cds"}

\* a piece of text of a line, and a number formatted into a line
Text(t) == <<"text", t>>
Number(n) == <<"number", n>>

\* lines 37-38
_format_payback(payback) ==
    IF IsNone(payback) THEN <<Text("não recupera no horizonte")>>
    ELSE <<Number(Val(payback)), Text("anos")>>

\* a choice that gives a tie between the expansions to neither
recommendation_TieToNone(base_ind, one_ind, two_ind) ==
    IF one_ind.npv > base_ind.npv /\ one_ind.npv > two_ind.npv
    THEN "Avançar com abertura de 1 novo CD"
    ELSE IF two_ind.npv > base_ind.npv /\ two_ind.npv > one_ind.npv
         THEN "Avançar com abertura de 2 novos CDs"
         ELSE "Manter cenário base"

\* lines 63-67
recommendation(base_ind, one_ind, two_ind) ==
    IF one_ind.npv > base_ind.npv /\ one_ind.npv >= two_ind.npv
    THEN "Avançar com abertura de 1 novo CD"
    ELSE IF two_ind.npv > base_ind.npv /\ two_ind.npv > one_ind.npv
         THEN "Avançar com abertura de 2 novos CDs"
         ELSE "Manter cenário base"

\* lines 83-88: the line of a scenario under "Indicadores financeiros"
indicator_line(name, ind) ==
    <<Text("-"), Text(name), Text("VPL="), Number(ind.npv), Text("Payback=")>>
    \o _format_payback(ind.payback_simple)
    \o <<Text("Payback descontado=")>> \o _format_payback(ind.payback_discounted)
    \o <<Text("ROI="), Number(ind.roi)>>

\* lines 74-76: the line of a scenario under "Resumo dos cenários"
summary_line(name, costs) ==
    <<Text("-"), Text(name), Text("custo anual"), Number(costs[name])>>

\* lines 79-80
reduction_line(label, name, costs) ==
    <<Text("-"), Text(label), Number(costs["base"] - costs[name])>>

\* lines 52-93
report_content(costs, inds) ==
    <<<<Text("# Relatório Executivo de Viabilidade")>>,
      <<>>,
      <<Text("## Resumo dos cenários")>>,
      summary_line("base", costs),
      summary_line("1_novo_cd", costs),
      summary_line("2_novos_cds", costs),
      <<>>,
      <<Text("## Custos comparativos")>>,
      reduction_line("Redução anual estimada com 1 novo CD vs base", "1_novo_cd", costs),
      reduction_line("Redução anual estimada com 2 novos CDs vs base", "2_novos_cds", costs),
      <<>>,
      <<Text("## Indicadores financeiros")>>,
      indicator_line("base", inds["base"]),
      indicator_line("1_novo_cd", inds["1_novo_cd"]),
      indicator_line("2_novos_cds", inds["2_novos_cds"]),
      <<>>,
      <<Text("## Recomendação acionável")>>,
      <<Text("-"),
        Text(recommendation(inds["base"], inds["1_novo_cd"], inds["2_novos_cds"])),
        Text("priorizando critérios financeiros de VPL e recuperação de investimento.")>>>>

\* line 48
missing_scenarios ==
    (RequiredScenarios \ DOMAIN scenario_costs) \cup (RequiredScenarios \ DOMAIN scenario_indicators)

ScenarioKeySets ==
    {RequiredScenarios, RequiredScenarios \cup {"tributo_5"}, RequiredScenarios \ {"2_novos_cds"}}

FinancialIndicators(npv) ==
    [npv |-> npv,
     payback_simple |-> IF npv > 0 THEN Some(3) ELSE None,
     payback_discounted |-> IF npv > 1 THEN Some(4) ELSE None,
     roi |-> npv * 10]

InitReport ==
    /\ \E keys \in ScenarioKeySets, cost \in {900, 1000} :
          scenario_costs = [n \in keys |-> IF n = "base" THEN 1000 ELSE cost]
    /\ \E keys \in ScenarioKeySets, npv \in [RequiredScenarios -> 0..MaxNpv] :
          scenario_indicators =
              [n \in keys |-> FinancialIndicators(IF n \in RequiredScenarios THEN npv[n] ELSE 0)]
    /\ fixed_costs = [f \in TableIds |-> 0]
    /\ candidates = None
    /\ demand_points = None
    /\ scenario_name = None
    /\ scenario = None
    /\ groups = None
    /\ long_df = None
    /\ batch = None
    /\ estimate = None
    /\ NoGeocoding
    /\ NoSession
    /\ NoLoader
    /\ NoCall
    /\ pc = "report"

reportFrame == <<args, candidates, demand_points, scenario_name, scenario, groups,
                 long_df, batch, estimate, client, call, io_log, config, runs,
                 scenario_costs, scenario_indicators, dataset, model, backend_calls>>

\* lines 47-50
RaiseMissingScenarios ==
    /\ pc = "report"
    /\ missing_scenarios # {}
    /\ pc' = "raised"
    /\ error' = Some([type |-> "ValueError", what |-> "missing_scenarios",
                      detail |-> missing_scenarios])
    /\ UNCHANGED <<reportFrame, output_dir, result>>

\* lines 52-99: the report is written and its path returned
GenerateExecutiveReport ==
    /\ pc = "report"
    /\ missing_scenarios = {}
    /\ output_dir' = ("relatorio_executivo.md" :>
                         report_content(scenario_costs, scenario_indicators)) @@ output_dir
    /\ result' = Some("relatorio_executivo.md")
    /\ pc' = "reported"
    /\ UNCHANGED <<reportFrame, error>>

NextReport ==
    \/ RaiseMissingScenarios
    \/ GenerateExecutiveReport

SpecReport == InitReport /\ [][NextReport]_vars

ReportLines == output_dir["relatorio_executivo.md"]

\* some line of the report holds the text
Mentions(text) ==
    \E i \in DOMAIN ReportLines : \E j \in DOMAIN ReportLines[i] : ReportLines[i][j] = Text(text)

\* C24: the report written by generate_executive_report mentions the name
\* of every scenario of scenario_costs and of scenario_indicators, those
\* beyond the three required ones included.
C24_EveryScenarioIsMentioned ==
    pc = "reported" =>
        \A name \in DOMAIN scenario_costs \cup DOMAIN scenario_indicators : Mentions(name)

Npv(name) == scenario_indicators[name].npv

\* the recommendations, by the scenario each one names
RecommendationOf ==
    ("base" :> "Manter cenário base") @@
    ("1_novo_cd" :> "Avançar com abertura de 1 novo CD") @@
    ("2_novos_cds" :> "Avançar com abertura de 2 novos CDs")

\* the scenario of highest NPV, base before 1_novo_cd before 2_novos_cds on a tie
BestScenario ==
    IF Npv("base") >= Npv("1_novo_cd") /\ Npv("base") >= Npv("2_novos_cds") THEN "base"
    ELSE IF Npv("1_novo_cd") >= Npv("2_novos_cds") THEN "1_novo_cd"
    ELSE "2_novos_cds"

Recommendations ==
    {i \in DOMAIN ReportLines :
        \E j \in DOMAIN ReportLines[i] :
            \E n \in DOMAIN RecommendationOf : ReportLines[i][j] = Text(RecommendationOf[n])}

\* C29: the report holds one recommendation; it names the scenario of
\* highest NPV among base, 1_novo_cd and 2_novos_cds, a tie going to base
\* before an expansion and to 1_novo_cd before 2_novos_cds; an expansion
\* whose NPV is not above the NPV of base is not recommended.
C29_OneRecommendationForTheBestNpv ==
    pc = "reported" =>
        /\ Cardinality(Recommendations) = 1
        /\ Mentions(RecommendationOf[BestScenario])
        /\ \A n \in {"1_novo_cd", "2_novos_cds"} :
              Npv(n) <= Npv("base") => ~Mentions(RecommendationOf[n])

\* the two expansions tie above base: one new CD is recommended
C29_Witness ==
    /\ pc = "reported"
    /\ Npv("base") = 0
    /\ Npv("1_novo_cd") = 2
    /\ Npv("2_novos_cds") = 2
    /\ Mentions("Avançar com abertura de 1 novo CD")
    /\ "tributo_5" \in DOMAIN scenario_costs


\* ========================================================= typed loaders
\* A dataset is the table read from the CSV: its columns, each with the
\* dtype pandas gave it and the text of its cells, and its number of rows.

\* lines 17-19
REQUIRED_COLUMNS ==
    ("demanda" :> {"id", "cidade", "uf", "demanda", "lat", "lon"}) @@
    ("localidades" :> {"id", "cidade", "uf", "lat", "lon"}) @@
    ("cds_candidatos" :> {"id", "cidade", "uf", "lat", "lon", "custo_fixo"})

\* line 21
STRING_COLUMNS == {"id", "cidade", "uf"}
\* line 22
NUMERIC_COLUMNS == {"demanda", "lat", "lon", "custo_fixo"}

\* lines 122, 133, 144
output_filename ==
    ("demanda" :> "demanda_normalizada.csv") @@
    ("localidades" :> "localidades_normalizadas.csv") @@
    ("cds_candidatos" :> "cds_candidatos_normalizados.csv")

\* str.strip and str.upper on the texts of the datasets
str_strip == (" sp" :> "sp") @@ ("SP" :> "SP") @@ ("1" :> "1") @@ ("Campinas " :> "Campinas")
str_upper == ("sp" :> "SP") @@ ("SP" :> "SP")

\* pd.to_numeric on one cell: the number, or nothing for a text that is none
to_numeric == ("10" :> Some(10)) @@ ("20" :> Some(20)) @@ ("x" :> None)

\* line 50: no rows, or no columns
df_empty(df) == df.rows = 0 \/ DOMAIN df.columns = {}

\* line 43
missing_columns(df) == REQUIRED_COLUMNS[df.name] \ DOMAIN df.columns

\* line 60: the string columns pandas read as something other than text
bad_string_columns(df) ==
    {col \in STRING_COLUMNS \cap DOMAIN df.columns : df.columns[col].dtype # "object"}

\* lines 74-76: the numeric columns on which pd.to_numeric raises
bad_numeric_columns(df) ==
    {col \in NUMERIC_COLUMNS \cap DOMAIN df.columns :
        \E i \in 1..df.rows : IsNone(to_numeric[df.columns[col].cells[i]])}

\* lines 64-66 and 75
normalize_column(col, column) ==
    IF col \in STRING_COLUMNS
    THEN [dtype |-> "string",
          cells |-> [i \in DOMAIN column.cells |->
                        IF col = "uf" THEN str_upper[str_strip[column.cells[i]]]
                        ELSE str_strip[column.cells[i]]]]
    ELSE IF col \in NUMERIC_COLUMNS
    THEN [dtype |-> "int64",
          cells |-> [i \in DOMAIN column.cells |-> Val(to_numeric[column.cells[i]])]]
    ELSE column

\* lines 83-88
normalize_dataframe(df) ==
    [df EXCEPT !.columns = [col \in DOMAIN df.columns |-> normalize_column(col, df.columns[col])]]

Cells(texts, n) == [1..n -> texts]

\* the tables the loaders are given: a column may be absent, the ids may
\* have been read as integers, a latitude may hold a text
Datasets ==
    {[name |-> name, rows |-> n,
      columns |-> [col \in (REQUIRED_COLUMNS[name] \ absent) |->
                      IF col = "id" THEN [dtype |-> id_dtype, cells |-> [i \in 1..n |-> "1"]]
                      ELSE IF col = "cidade" THEN [dtype |-> "object", cells |-> [i \in 1..n |-> "Campinas "]]
                      ELSE IF col = "uf" THEN [dtype |-> "object", cells |-> uf]
                      ELSE IF col = "lat" THEN [dtype |-> "object", cells |-> lat]
                      ELSE [dtype |-> "int64", cells |-> [i \in 1..n |-> "10"]]]] :
        name \in DOMAIN REQUIRED_COLUMNS, n \in 0..MaxRows,
        absent \in {{}, {"lat"}, {"uf"}}, id_dtype \in {"object", "int64"},
        uf \in UNION {Cells({" sp", "SP"}, m) : m \in 0..MaxRows},
        lat \in UNION {Cells({"10", "20", "x"}, m) : m \in 0..MaxRows}}

WellFormed(df) ==
    \A col \in DOMAIN df.columns : DOMAIN df.columns[col].cells = 1..df.rows

InitLoader ==
    /\ dataset \in {Some(df) : df \in {d \in Datasets : WellFormed(d)}}
    /\ output_dir \in {<<>>, ("relatorio_executivo.md" :> <<>>)}
    /\ fixed_costs = [f \in TableIds |-> 0]
    /\ candidates = None
    /\ demand_points = None
    /\ scenario_name = None
    /\ scenario = None
    /\ groups = None
    /\ long_df = None
    /\ batch = None
    /\ estimate = None
    /\ NoGeocoding
    /\ NoSession
    /\ NoReport
    /\ NoCall
    /\ pc = "load"

loaderFrame == <<args, candidates, demand_points, scenario_name, scenario, groups,
                 long_df, batch, estimate, client, call, io_log, config, runs,
                 scenario_costs, scenario_indicators, dataset, model, backend_calls>>

\* the order that looks at the columns before it looks at the rows
validation_error_ColumnsFirst(df) ==
    IF missing_columns(df) # {} THEN Some("missing_columns")
    ELSE IF df_empty(df) THEN Some("empty")
    ELSE IF bad_string_columns(df) # {} THEN Some("string_type")
    ELSE IF bad_numeric_columns(df) # {} THEN Some("numeric")
    ELSE None

\* lines 108-110: the first validation that raises, if one does
validation_error(df) ==
    IF df_empty(df) THEN Some("empty")
    ELSE IF missing_columns(df) # {} THEN Some("missing_columns")
    ELSE IF bad_string_columns(df) # {} THEN Some("string_type")
    ELSE IF bad_numeric_columns(df) # {} THEN Some("numeric")
    ELSE None

\* lines 92-96: the directory after the table was saved under the name
persist_intermediate_output(df, filename, dir) == (filename :> df) @@ dir

LoaderRaises(what) ==
    /\ pc' = "raised"
    /\ error' = Some([type |-> "ValueError", what |-> what, detail |-> Val(dataset).name])
    /\ UNCHANGED <<loaderFrame, output_dir, result>>

\* lines 49-51
RaiseEmptyDataset ==
    /\ pc = "load"
    /\ validation_error(Val(dataset)) = Some("empty")
    /\ LoaderRaises("empty")

\* lines 41-45
RaiseMissingColumns ==
    /\ pc = "load"
    /\ validation_error(Val(dataset)) = Some("missing_columns")
    /\ LoaderRaises("missing_columns")

\* lines 60-63
RaiseInvalidStringType ==
    /\ pc = "load"
    /\ validation_error(Val(dataset)) = Some("string_type")
    /\ LoaderRaises("string_type")

\* lines 74-79
RaiseInvalidNumeric ==
    /\ pc = "load"
    /\ validation_error(Val(dataset)) = Some("numeric")
    /\ LoaderRaises("numeric")

\* lines 107-113 when no validation raises
LoadTypedDataset ==
    /\ pc = "load"
    /\ IsNone(validation_error(Val(dataset)))
    /\ LET normalized == normalize_dataframe(Val(dataset))
       IN /\ output_dir' = persist_intermediate_output(
                               normalized, output_filename[normalized.name], output_dir)
          /\ result' = Some(normalized)
    /\ pc' = "loaded"
    /\ UNCHANGED <<loaderFrame, error>>

NextLoader ==
    \/ RaiseEmptyDataset
    \/ RaiseMissingColumns
    \/ RaiseInvalidStringType
    \/ RaiseInvalidNumeric
    \/ LoadTypedDataset

SpecLoader == InitLoader /\ [][NextLoader]_vars

Loaded == Val(dataset)
NormalizedFile == output_filename[Loaded.name]

\* C25: a typed loader raises ValueError on an empty dataset, on a missing
\* required column and on a numeric column holding a text that is no
\* number; the empty dataset is reported before the missing column and the
\* missing column before the numeric column; when it raises, the output
\* directory is left as it was, and the normalized file is written only
\* when every validation passed.
C25_ValidationBeforeOutput ==
    /\ [](pc \in {"raised", "loaded"} =>
            /\ (\/ df_empty(Loaded)
                \/ missing_columns(Loaded) # {}
                \/ bad_numeric_columns(Loaded) # {})
               => pc = "raised" /\ Val(error).type = "ValueError"
            /\ df_empty(Loaded) => Val(error).what = "empty"
            /\ (~df_empty(Loaded) /\ missing_columns(Loaded) # {})
               => Val(error).what = "missing_columns"
            /\ (pc = "raised" /\ Val(error).what = "numeric")
               => ~df_empty(Loaded) /\ missing_columns(Loaded) = {})
    /\ [][/\ pc' = "raised" => output_dir' = output_dir
          /\ output_dir' # output_dir =>
                /\ pc' = "loaded"
                /\ ~df_empty(Loaded)
                /\ missing_columns(Loaded) = {}
                /\ bad_string_columns(Loaded) = {}
                /\ bad_numeric_columns(Loaded) = {}
                /\ output_dir' = (NormalizedFile :> Val(result')) @@ output_dir]_vars

\* a table without rows that also lacks a column is reported as empty
C25_Witness ==
    /\ pc = "raised"
    /\ df_empty(Loaded)
    /\ missing_columns(Loaded) # {}
    /\ Val(error).what = "empty"
    /\ NormalizedFile \notin DOMAIN output_dir

\* a table that passes is written with its texts trimmed and uf in capitals
C25_WitnessWritten ==
    /\ pc = "loaded"
    /\ NormalizedFile \in DOMAIN output_dir
    /\ \E i \in 1..Loaded.rows : Loaded.columns["uf"].cells[i] = " sp"
    /\ \A i \in 1..Loaded.rows : output_dir[NormalizedFile].columns["uf"].cells[i] = "SP"


\* ------------------------------------------- the rows of run_scenarios_batch
\* the matrix of a scenario on the tables of the batch
MatrixFor(sc) == apply_scenario_and_recompute_costs(candidates, demand_points, sc)

DefinedCosts(cm) == {i \in DOMAIN cm : cm[i].freight_cost # NA}

RECURSIVE FreightUpTo(_, _)
FreightUpTo(cm, n) ==
    IF n = 0 THEN 0
    ELSE FreightUpTo(cm, n - 1) + (IF n \in DefinedCosts(cm) THEN cm[n].freight_cost ELSE 0)

RECURSIVE DemandUpTo(_, _)
DemandUpTo(cm, n) ==
    IF n = 0 THEN 0 ELSE DemandUpTo(cm, n - 1) + cm[n].demanda

FreightSum(cm) == FreightUpTo(cm, Len(cm))
DemandSum(cm) == DemandUpTo(cm, Len(cm))

BatchRows == batch.comparative_rows
BaseRow == RowAlone("base")

\* differs from base by a positive tax factor only, or by a wage factor above 1 only
OnlyTaxOrWage(row) ==
    /\ row.crescimento_demanda = 0
    /\ row.limite_novos_cds = None
    /\ \/ row.fator_tributario > 0 /\ row.fator_salarial = 10
       \/ row.fator_tributario = 0 /\ row.fator_salarial > 10

\* one turn of the loop adds the row of the scenario at hand and no other,
\* and the final sort keeps the rows
OneRowPerScenario ==
    [][/\ (pc = "batch" /\ pc' = "batch" /\ batch' # batch) =>
            /\ Len(batch'.comparative_rows) = Len(BatchRows) + 1
            /\ SubSeq(batch'.comparative_rows, 1, Len(BatchRows)) = BatchRows
            /\ batch'.comparative_rows[Len(BatchRows) + 1].scenario = Head(batch.todo)[1]
            /\ batch'.todo = Tail(batch.todo)
       /\ pc' = "batch_returned" =>
            /\ batch.todo = <<>>
            /\ Len(batch'.comparative_rows) = Len(BatchRows)
            /\ Range(batch'.comparative_rows) = Range(BatchRows)]_vars

\* the totals of a row are the sums over the matrix of its scenario
TotalsAreSums ==
    \A i \in DOMAIN BatchRows :
        LET row == BatchRows[i]
            cm  == MatrixFor(DEFAULT_SCENARIOS[row.scenario])
        IN  /\ row.total_demand = DemandSum(cm)
            /\ row.total_freight_cost = FreightSum(cm)

\* a growth of g tenths multiplies the total demand by 1 + g
GrowthScalesDemand ==
    \A i \in DOMAIN BatchRows :
        BatchRows[i].total_demand * 10 =
            BaseRow.total_demand * (10 + BatchRows[i].crescimento_demanda)

\* C26 as stated: one row per selected scenario, its totals the sums over
\* the matrix of the scenario, the total demand multiplied by 1 + g, and a
\* scenario with only a positive tax or only a wage factor above 1 strictly
\* above base in total_freight_cost.
C26_TaxOrWageAlwaysCostsMore ==
    /\ OneRowPerScenario
    /\ [](pc \in {"batch", "batch_returned"} =>
            /\ TotalsAreSums
            /\ GrowthScalesDemand
            /\ \A i \in DOMAIN BatchRows :
                  OnlyTaxOrWage(BatchRows[i]) =>
                      BatchRows[i].total_freight_cost > BaseRow.total_freight_cost)

\* some pair of the base matrix has a freight cost of 1.00 or more
BaseHasACost ==
    LET cm == MatrixFor(DEFAULT_SCENARIOS["base"])
    IN  \E i \in DefinedCosts(cm) : cm[i].freight_cost >= 100

\* C26 amended: as above, but the total_freight_cost of a tax-only or
\* wage-only scenario is never below that of base, and strictly above it
\* when some pair of the base matrix has a defined freight cost of at least
\* 1.00; with every freight cost undefined both totals are 0.
C26_TaxOrWageNeverCostsLess ==
    /\ OneRowPerScenario
    /\ [](pc \in {"batch", "batch_returned"} =>
            /\ TotalsAreSums
            /\ GrowthScalesDemand
            /\ \A i \in DOMAIN BatchRows :
                  OnlyTaxOrWage(BatchRows[i]) =>
                      /\ BatchRows[i].total_freight_cost >= BaseRow.total_freight_cost
                      /\ BaseHasACost =>
                            BatchRows[i].total_freight_cost > BaseRow.total_freight_cost
                      /\ DefinedCosts(MatrixFor(DEFAULT_SCENARIOS["base"])) = {} =>
                            BatchRows[i].total_freight_cost = 0)

\* the six default scenarios on a table where site A has no coordinates
C26_Witness ==
    /\ pc = "batch_returned"
    /\ Len(BatchRows) = 6
    /\ "A" \notin candidates.coords
    /\ BaseHasACost
    /\ \E i, j, k \in DOMAIN BatchRows :
          /\ BatchRows[i].scenario = "tributo_5"
          /\ BatchRows[j].scenario = "salario_10"
          /\ BatchRows[k].scenario = "crescimento_10"
          /\ BatchRows[i].total_freight_cost > BaseRow.total_freight_cost
          /\ BatchRows[j].total_freight_cost > BatchRows[i].total_freight_cost
          /\ BatchRows[k].total_demand > BaseRow.total_demand


\* ===================================== run_pipeline, base then 2_novos_cds
\* test_cli.py lines 11-15: two calls of run_pipeline with one AppConfig on
\* the same facilities.csv, clients.csv and fixed_costs.csv.  runs keeps what
\* the earlier call returned and the model the backend solved for it.

\* cli.py lines 180 and 201: --facility-limit sets default_facility_limit
AppConfigs == {[default_facility_limit |-> k] : k \in 0..MaxDefaultLimit}

InitPipeline ==
    /\ candidates \in FacilitiesCsv
    /\ demand_points = [client_id |-> ClientOrder,
                        demanda |-> Some([c \in ClientIds |-> DefaultDemand]),
                        coords |-> ClientIds]
    /\ scenario_name = "base"
    /\ scenario = DEFAULT_SCENARIOS["base"]
    /\ fixed_costs \in FixedCostsCsv
    /\ groups = None
    /\ long_df = None
    /\ batch = None
    /\ estimate = None
    /\ NoGeocoding
    /\ config \in AppConfigs
    /\ runs = <<>>
    /\ NoReport
    /\ NoLoader
    /\ NoCall
    /\ pc = "scenario"

\* cli.py lines 118-126 and 128-132: the first call returns its summary and
\* the test calls run_pipeline again, for 2_novos_cds
RunPipelineAgain ==
    /\ pc = "returned"
    /\ scenario_name = "base"
    /\ runs' = Append(runs, [scenario            |-> scenario_name,
                             selected_facilities |-> Val(result).open_facilities,
                             total_cost          |-> Val(result).total_cost,
                             solved              |-> Val(model),
                             solution            |-> Val(result)])
    /\ scenario_name' = "2_novos_cds"
    /\ scenario' = DEFAULT_SCENARIOS["2_novos_cds"]
    /\ model' = None
    /\ result' = None
    /\ backend_calls' = 0
    /\ pc' = "scenario"
    /\ UNCHANGED <<args, candidates, demand_points, groups, long_df, batch, estimate,
                   client, call, io_log, config, scenario_costs, scenario_indicators,
                   dataset, output_dir, error>>

\* the backend is deterministic: a model it has solved before gets the
\* answer it got before
SolveOptimalAsBefore ==
    /\ SolveOptimal
    /\ \A i \in DOMAIN runs : runs[i].solved = Val(model) => result' = Some(runs[i].solution)

NextPipeline ==
    \/ ExecuteScenario
    \/ RaiseUnknownForced
    \/ RaiseUnknownCandidates
    \/ RaiseMissingCost
    \/ BuildModel
    \/ SolveNotOptimal
    \/ SolveOptimalAsBefore
    \/ RunPipelineAgain

SpecPipeline == InitPipeline /\ [][NextPipeline]_vars

\* both calls have returned
BothReturned == pc = "returned" /\ scenario_name = "2_novos_cds" /\ Len(runs) = 1
SelectedByBase == Cardinality(Range(runs[1].selected_facilities))
SelectedByTwo == Cardinality(OpenSet)

\* C27 as stated: on the same data 2_novos_cds selects at least as many
\* facilities as base, with an existing network and without one.
C27_TwoNewSelectsAtLeastAsMany ==
    BothReturned => SelectedByTwo >= SelectedByBase

\* C27 amended: with an existing network base selects the existing
\* facilities and 2_novos_cds two more; without one, 2_novos_cds selects at
\* least as many as base when default_facility_limit is at most 2.
C27_TwoNewSelectsAtLeastAsManyUnderDefault ==
    BothReturned =>
        /\ ExistingIds # {} =>
              /\ SelectedByBase = Cardinality(ExistingIds)
              /\ SelectedByTwo = Cardinality(ExistingIds) + 2
        /\ (ExistingIds = {} /\ default_facility_limit <= 2) =>
              SelectedByTwo >= SelectedByBase
        /\ (ExistingIds = {} /\ default_facility_limit = 2) =>
              OpenSet = Range(runs[1].selected_facilities)

\* no existing network, the default limit: both calls select A and B
C27_Witness ==
    /\ BothReturned
    /\ ExistingIds = {}
    /\ default_facility_limit = 2
    /\ SelectedByBase = 2
    /\ SelectedByTwo = 2

\* one existing site: base keeps it, 2_novos_cds opens the two others
C27_WitnessExisting ==
    /\ BothReturned
    /\ Cardinality(ExistingIds) = 1
    /\ SelectedByBase = 1
    /\ SelectedByTwo = 3

====
